---- MODULE Spec2Model ----
(***************************************************************************)
(* Model of the surgical antibiotic-prophylaxis auditor                    *)
(* (controllers/surgery_auditor.py with utils/text_utils.py,               *)
(* models/audit_data.py, models/protocol_rules.py, config/settings.py).    *)
(*                                                                         *)
(* Conventions                                                             *)
(*   - Python None is the empty tuple <<>>, a present value v is <<v>>.    *)
(*   - Texts are TLA+ strings, read character by character.                *)
(*   - A float score is the exact rational [n |-> .., d |-> ..], d > 0.    *)
(*   - Doses are whole milligrams, weights whole kilograms.                *)
(***************************************************************************)
EXTENDS Integers, Sequences, FiniteSets, TLC

VARIABLES
    rules_repo,                 \* ProtocolRulesRepository.rules (list of ProtocolRule)
    config,                     \* SurgeryAuditor.config
    procedure_translation_map,  \* SurgeryAuditor.procedure_translation_map
    surgery_records,            \* SurgeryAuditor.surgery_records
    audit_results,              \* SurgeryAuditor.audit_results
    result,                     \* the AuditResult an operation works on / returned last
    pc                          \* which operation ran last

vars == <<rules_repo, config, procedure_translation_map, surgery_records,
          audit_results, result, pc>>

----------------------------------------------------------------------------
(* Optional values *)

None == <<>>
Some(v) == <<v>>
IsNone(o) == o = <<>>
Val(o) == o[1]

(* Rational scores *)

Rat(n, d) == [n |-> n, d |-> d]
Zero == Rat(0, 1)
One == Rat(1, 1)
RatEq(a, b) == a.n * b.d = b.n * a.d
RatLt(a, b) == a.n * b.d < b.n * a.d
RatLe(a, b) == a.n * b.d <= b.n * a.d

Abs(x) == IF x < 0 THEN -x ELSE x
Min(a, b) == IF a <= b THEN a ELSE b

----------------------------------------------------------------------------
(* models/audit_data.py *)

STATUSES == {"CONFORME", "NAO_CONFORME", "ALERTA", "INDETERMINADO"}

\* SurgeryRecord(...) with the dataclass defaults
SurgeryRecord ==
    [ procedure            |-> "",
      incision_time        |-> None,
      atb_time             |-> None,
      repique_time         |-> None,
      atb_given            |-> "NAO",
      atb_detected         |-> <<>>,
      dose_administered_mg |-> None,
      repique_done         |-> "NAO",
      patient_weight       |-> None,
      row_index            |-> -1 ]

\* AuditResult(surgery_record=record) with the dataclass defaults
AuditResult(record) ==
    [ surgery_record              |-> record,
      matched_rule_id             |-> None,
      match_score                 |-> Zero,
      match_method                |-> "",
      conf_escolha                |-> "INDETERMINADO",
      conf_escolha_razao          |-> "",
      conf_dose                   |-> "INDETERMINADO",
      conf_dose_razao             |-> "",
      conf_timing                 |-> "INDETERMINADO",
      conf_timing_razao           |-> "",
      conf_repique                |-> "INDETERMINADO",
      conf_repique_razao          |-> "",
      conf_final                  |-> "INDETERMINADO",
      conf_final_razao            |-> "",
      protocolo_requer_profilaxia |-> FALSE,
      protocolo_atb_recomendados  |-> <<>>,
      dose_diferenca_mg           |-> None,
      dose_diferenca_pct          |-> None,
      timing_diferenca_minutos    |-> None,
      repique_diferenca_minutos   |-> None,
      observacoes                 |-> <<>> ]

----------------------------------------------------------------------------
(* SurgeryAuditor._calculate_final_conformity *)

\* ', '.join(reasons)
RECURSIVE JoinReasons(_)
JoinReasons(reasons) ==
    IF Len(reasons) = 0 THEN ""
    ELSE IF Len(reasons) = 1 THEN reasons[1]
    ELSE reasons[1] \o ", " \o JoinReasons(Tail(reasons))

\* Mutant: the reason of the dose is appended before the reason of the choice.
NonConformReasons_DoseFirst(res) ==
    (IF res.conf_dose = "NAO_CONFORME" THEN <<res.conf_dose_razao>> ELSE <<>>)
    \o (IF res.conf_escolha = "NAO_CONFORME" THEN <<res.conf_escolha_razao>> ELSE <<>>)
    \o (IF res.conf_timing = "NAO_CONFORME" THEN <<res.conf_timing_razao>> ELSE <<>>)
    \o (IF res.conf_repique = "NAO_CONFORME" THEN <<res.conf_repique_razao>> ELSE <<>>)

\* the reasons list built by the four appends, in the order of the code
NonConformReasons(res) ==
    (IF res.conf_escolha = "NAO_CONFORME" THEN <<res.conf_escolha_razao>> ELSE <<>>)
    \o (IF res.conf_dose = "NAO_CONFORME" THEN <<res.conf_dose_razao>> ELSE <<>>)
    \o (IF res.conf_timing = "NAO_CONFORME" THEN <<res.conf_timing_razao>> ELSE <<>>)
    \o (IF res.conf_repique = "NAO_CONFORME" THEN <<res.conf_repique_razao>> ELSE <<>>)

\* Mutant: the gate on an INDETERMINADO choice is dropped.
_calculate_final_conformity_NoGate(res) ==
    LET statuses == {res.conf_escolha, res.conf_dose, res.conf_timing, res.conf_repique}
    IN  IF "NAO_CONFORME" \in statuses
        THEN <<"NAO_CONFORME", JoinReasons(NonConformReasons(res))>>
        ELSE IF "ALERTA" \in statuses
        THEN IF res.conf_dose = "ALERTA" THEN <<"ALERTA", res.conf_dose_razao>>
             ELSE IF res.conf_escolha = "ALERTA" THEN <<"ALERTA", res.conf_escolha_razao>>
             ELSE <<"ALERTA", "alerta_validacao">>
        ELSE <<"CONFORME", "todos_criterios_conformes">>

\* Mutant: the ALERTA test is made before the NAO_CONFORME test.
_calculate_final_conformity_AlertFirst(res) ==
    LET statuses == {res.conf_escolha, res.conf_dose, res.conf_timing, res.conf_repique}
    IN  IF res.conf_escolha = "INDETERMINADO"
        THEN IF RatEq(res.match_score, Zero)
             THEN <<"ALERTA", "sem_match_protocolo">>
             ELSE <<"ALERTA", IF res.conf_escolha_razao # ""
                              THEN res.conf_escolha_razao ELSE "dados_insuficientes">>
        ELSE IF "ALERTA" \in statuses
        THEN IF res.conf_dose = "ALERTA" THEN <<"ALERTA", res.conf_dose_razao>>
             ELSE IF res.conf_escolha = "ALERTA" THEN <<"ALERTA", res.conf_escolha_razao>>
             ELSE <<"ALERTA", "alerta_validacao">>
        ELSE IF "NAO_CONFORME" \in statuses
        THEN <<"NAO_CONFORME", JoinReasons(NonConformReasons(res))>>
        ELSE <<"CONFORME", "todos_criterios_conformes">>

\* Mutant: an INDETERMINADO in any criterion is final-affecting.
_calculate_final_conformity_AnyIndet(res) ==
    LET statuses == {res.conf_escolha, res.conf_dose, res.conf_timing, res.conf_repique}
    IN  IF res.conf_escolha = "INDETERMINADO"
        THEN IF RatEq(res.match_score, Zero)
             THEN <<"ALERTA", "sem_match_protocolo">>
             ELSE <<"ALERTA", IF res.conf_escolha_razao # ""
                              THEN res.conf_escolha_razao ELSE "dados_insuficientes">>
        ELSE IF "NAO_CONFORME" \in statuses
        THEN <<"NAO_CONFORME", JoinReasons(NonConformReasons(res))>>
        ELSE IF "ALERTA" \in statuses \/ "INDETERMINADO" \in statuses
        THEN IF res.conf_dose = "ALERTA" THEN <<"ALERTA", res.conf_dose_razao>>
             ELSE IF res.conf_escolha = "ALERTA" THEN <<"ALERTA", res.conf_escolha_razao>>
             ELSE <<"ALERTA", "alerta_validacao">>
        ELSE <<"CONFORME", "todos_criterios_conformes">>

\* Mutant: an INDETERMINADO left in a secondary criterion becomes the final status.
_calculate_final_conformity_IndetKept(res) ==
    LET statuses == {res.conf_escolha, res.conf_dose, res.conf_timing, res.conf_repique}
    IN  IF res.conf_escolha = "INDETERMINADO"
        THEN IF RatEq(res.match_score, Zero)
             THEN <<"ALERTA", "sem_match_protocolo">>
             ELSE <<"ALERTA", IF res.conf_escolha_razao # ""
                              THEN res.conf_escolha_razao ELSE "dados_insuficientes">>
        ELSE IF "NAO_CONFORME" \in statuses
        THEN <<"NAO_CONFORME", JoinReasons(NonConformReasons(res))>>
        ELSE IF "ALERTA" \in statuses
        THEN IF res.conf_dose = "ALERTA" THEN <<"ALERTA", res.conf_dose_razao>>
             ELSE IF res.conf_escolha = "ALERTA" THEN <<"ALERTA", res.conf_escolha_razao>>
             ELSE <<"ALERTA", "alerta_validacao">>
        ELSE IF "INDETERMINADO" \in statuses
        THEN <<"INDETERMINADO", "dados_insuficientes">>
        ELSE <<"CONFORME", "todos_criterios_conformes">>

\* Returns <<status_final, razao>>.
_calculate_final_conformity(res) ==
    LET statuses == {res.conf_escolha, res.conf_dose, res.conf_timing, res.conf_repique}
    IN  IF res.conf_escolha = "INDETERMINADO"
        THEN IF RatEq(res.match_score, Zero)
             THEN <<"ALERTA", "sem_match_protocolo">>
             ELSE <<"ALERTA", IF res.conf_escolha_razao # ""
                              THEN res.conf_escolha_razao ELSE "dados_insuficientes">>
        ELSE IF "NAO_CONFORME" \in statuses
        THEN <<"NAO_CONFORME", JoinReasons(NonConformReasons(res))>>
        ELSE IF "ALERTA" \in statuses
        THEN IF res.conf_dose = "ALERTA" THEN <<"ALERTA", res.conf_dose_razao>>
             ELSE IF res.conf_escolha = "ALERTA" THEN <<"ALERTA", res.conf_escolha_razao>>
             ELSE <<"ALERTA", "alerta_validacao">>
        ELSE <<"CONFORME", "todos_criterios_conformes">>

----------------------------------------------------------------------------
(* utils/text_utils.py *)

UPPER == "ABCDEFGHIJKLMNOPQRSTUVWXYZ"
LOWER == "abcdefghijklmnopqrstuvwxyz"
DIGITS == "0123456789"

CharAt(s, i) == SubSeq(s, i, i)
CharsOf(s) == {CharAt(s, i) : i \in 1..Len(s)}

\* position of the one-character string c in s, 0 when absent
IndexOf(c, s) ==
    IF c \in CharsOf(s) THEN CHOOSE i \in 1..Len(s) : CharAt(s, i) = c ELSE 0

UpperChars == CharsOf(UPPER)
KeptChars == CharsOf(LOWER) \cup CharsOf(DIGITS) \cup {" "}

\* str.lower() on the characters it changes
LowerMap == [c \in UpperChars |-> CharAt(LOWER, IndexOf(c, UPPER))]

\* text.lower() followed by re.sub(r'[^a-z0-9\s]', ' ', text), one character
NormChar(c) ==
    LET l == IF c \in UpperChars THEN LowerMap[c] ELSE c
    IN  IF l \in KeptChars THEN l ELSE " "

\* text.split(): the non-empty maximal runs of non-space characters
RECURSIVE SplitFrom(_, _, _)
SplitFrom(s, i, cur) ==
    IF i > Len(s) THEN (IF cur = "" THEN <<>> ELSE <<cur>>)
    ELSE IF CharAt(s, i) = " "
         THEN (IF cur = "" THEN <<>> ELSE <<cur>>) \o SplitFrom(s, i + 1, "")
         ELSE SplitFrom(s, i + 1, cur \o CharAt(s, i))

Split(s) == SplitFrom(s, 1, "")

\* ' '.join(words)
RECURSIVE JoinWords(_)
JoinWords(words) ==
    IF Len(words) = 0 THEN ""
    ELSE IF Len(words) = 1 THEN words[1]
    ELSE words[1] \o " " \o JoinWords(Tail(words))

RECURSIVE MapNormChar(_, _)
MapNormChar(s, i) ==
    IF i > Len(s) THEN "" ELSE NormChar(CharAt(s, i)) \o MapNormChar(s, i + 1)

\* normalize_text(text) for a text of the model's alphabet (ASCII letters, digits,
\* blanks and punctuation; the accent-stripping step leaves such a text unchanged)
normalize_text(text) == JoinWords(Split(MapNormChar(text, 1)))

\* the stop_words list of clean_procedure_name
stop_words == {"cirurgia", "procedimento", "de", "do", "da", "em", "com", "para"}

\* clean_procedure_name(procedure)
clean_procedure_name(procedure) ==
    IF procedure = "" THEN ""
    ELSE LET clean == normalize_text(procedure)
             keep(w) == w \notin stop_words
         IN  JoinWords(SelectSeq(Split(clean), keep))

\* a in b, for Python strings
IsSubstring(a, b) ==
    \E i \in 1..(Len(b) + 1) : i + Len(a) - 1 <= Len(b) /\ SubSeq(b, i, i + Len(a) - 1) = a

----------------------------------------------------------------------------
(* rapidfuzz.fuzz.token_set_ratio, as used by fuzzy_match_score *)

Max(a, b) == IF a >= b THEN a ELSE b
RatMax(a, b) == IF RatLt(a, b) THEN b ELSE a

\* code-point order of the characters a normalized text is made of
ORDER == " " \o DIGITS \o LOWER
OrderOf == [c \in CharsOf(ORDER) |-> IndexOf(c, ORDER)]

\* a < b for Python strings
RECURSIVE StrLess(_, _)
StrLess(a, b) ==
    IF Len(b) = 0 THEN FALSE
    ELSE IF Len(a) = 0 THEN TRUE
    ELSE IF Head(a) = Head(b) THEN StrLess(Tail(a), Tail(b))
    ELSE OrderOf[Head(a)] < OrderOf[Head(b)]

\* sorted(tokens) for a set of strings
RECURSIVE Sorted(_)
Sorted(S) ==
    IF S = {} THEN <<>>
    ELSE LET m == CHOOSE t \in S : \A u \in S : u = t \/ StrLess(t, u)
         IN  <<m>> \o Sorted(S \ {m})

SeqToSet(q) == {q[i] : i \in 1..Len(q)}

\* one row of the longest-common-subsequence table; row[j + 1] is column j
RECURSIVE LcsFill(_, _, _, _, _)
LcsFill(prev, c, b, j, acc) ==
    IF j > Len(b) THEN acc
    ELSE LcsFill(prev, c, b, j + 1,
                 Append(acc, IF c = CharAt(b, j) THEN prev[j] + 1
                             ELSE Max(prev[j + 1], acc[j])))

RECURSIVE LcsRows(_, _, _, _)
LcsRows(a, b, i, prev) ==
    IF i > Len(a) THEN prev[Len(b) + 1]
    ELSE LET row == LcsFill(prev, CharAt(a, i), b, 1, <<0>>)
         IN  IF Len(row) = Len(b) + 1      \* the row is complete before the next starts
             THEN LcsRows(a, b, i + 1, row)
             ELSE 0

LcsLength(a, b) == LcsRows(a, b, 1, [j \in 1..(Len(b) + 1) |-> 0])

\* Indel distance: insertions and deletions turning a into b
indel_distance(a, b) == Len(a) + Len(b) - 2 * LcsLength(a, b)

\* _norm_distance(dist, lensum, 0) / 100
norm_distance(dist, lensum) == IF lensum > 0 THEN Rat(lensum - dist, lensum) ELSE One

\* token_set_ratio: the best of the three ratios, from the lengths of the joined
\* intersection and differences and the distance between the two differences
LengthsRatio(sect_len, ab_len, ba_len, dist) ==
    LET sep == IF sect_len # 0 THEN 1 ELSE 0
        sect_ab_len == sect_len + sep + ab_len
        sect_ba_len == sect_len + sep + ba_len
        res == norm_distance(dist, sect_ab_len + sect_ba_len)
        sect_ab_ratio == norm_distance(sep + ab_len, sect_len + sect_ab_len)
        sect_ba_ratio == norm_distance(sep + ba_len, sect_len + sect_ba_len)
    IN  IF sect_len = 0 THEN res
        ELSE RatMax(res, RatMax(sect_ab_ratio, sect_ba_ratio))

JoinedRatio(sect_joined, diff_ab_joined, diff_ba_joined) ==
    LengthsRatio(Len(sect_joined), Len(diff_ab_joined), Len(diff_ba_joined),
                 indel_distance(diff_ab_joined, diff_ba_joined))

TokensRatio(tokens_a, tokens_b) ==
    IF tokens_a = {} \/ tokens_b = {} THEN Zero
    ELSE IF tokens_a \cap tokens_b # {}
            /\ (tokens_a \ tokens_b = {} \/ tokens_b \ tokens_a = {}) THEN One
    ELSE JoinedRatio(JoinWords(Sorted(tokens_a \cap tokens_b)),
                     JoinWords(Sorted(tokens_a \ tokens_b)),
                     JoinWords(Sorted(tokens_b \ tokens_a)))

\* fuzz.token_set_ratio(s1, s2) / 100.0
token_set_ratio(s1, s2) == TokensRatio(SeqToSet(Split(s1)), SeqToSet(Split(s2)))

\* fuzzy_match_score, from the two normalized texts on
NormalizedScore(norm1, norm2) ==
    IF norm1 = norm2 THEN One ELSE token_set_ratio(norm1, norm2)

\* fuzzy_match_score(text1, text2)
fuzzy_match_score(text1, text2) ==
    IF text1 = "" \/ text2 = "" THEN Zero
    ELSE NormalizedScore(normalize_text(text1), normalize_text(text2))

----------------------------------------------------------------------------
(* extract_drug_names *)

\* text.replace(" ", "")
RECURSIVE Compact(_)
Compact(s) ==
    IF Len(s) = 0 THEN ""
    ELSE IF Head(s) = " " THEN Compact(Tail(s))
    ELSE Head(s) \o Compact(Tail(s))

\* fuzz.ratio(a, b) / 100.0
ratio(a, b) == norm_distance(indel_distance(a, b), Len(a) + Len(b))

\* the tokens of the fallback: the words of five characters or more, then the
\* text without its blanks when it has five characters or more
WithCompact(tokens, compact_text) ==
    IF Len(compact_text) >= 5 THEN Append(tokens, compact_text) ELSE tokens
FallbackTokens(normalized) ==
    LET long(token) == Len(token) >= 5
    IN  WithCompact(SelectSeq(Split(normalized), long), Compact(normalized))

\* some alias of the list, normalized, is in the normalized text
AliasInText(aliases, normalized) ==
    \E k \in 1..Len(aliases) : IsSubstring(normalize_text(aliases[k]), normalized)

\* the first loop over drug_dict.items(), from entry k on
RECURSIVE DirectScan(_, _, _, _)
DirectScan(drug_dict, normalized, k, found_drugs) ==
    IF k > Len(drug_dict) THEN found_drugs
    ELSE DirectScan(drug_dict, normalized, k + 1,
                    IF AliasInText(drug_dict[k].aliases, normalized)
                       /\ drug_dict[k].standard_name \notin SeqToSet(found_drugs)
                    THEN Append(found_drugs, drug_dict[k].standard_name)
                    ELSE found_drugs)

\* an alias of five characters or more scores 0.84 or more against some token
CloseToToken(alias_norm, tokens) ==
    /\ Len(alias_norm) >= 5
    /\ \E t \in 1..Len(tokens) : RatLe(Rat(84, 100), ratio(tokens[t], alias_norm))
AliasCloseToToken(aliases, tokens) ==
    \E k \in 1..Len(aliases) : CloseToToken(Compact(normalize_text(aliases[k])), tokens)

\* the second loop over drug_dict.items(), from entry k on
RECURSIVE FallbackScan(_, _, _, _)
FallbackScan(drug_dict, tokens, k, found_drugs) ==
    IF k > Len(drug_dict) THEN found_drugs
    ELSE FallbackScan(drug_dict, tokens, k + 1,
                      IF drug_dict[k].standard_name \notin SeqToSet(found_drugs)
                         /\ AliasCloseToToken(drug_dict[k].aliases, tokens)
                      THEN Append(found_drugs, drug_dict[k].standard_name)
                      ELSE found_drugs)

\* Mutant: the fallback runs whatever the first loop found.
OrFallback_Always(found_drugs, normalized, drug_dict) ==
    FallbackScan(drug_dict, FallbackTokens(normalized), 1, found_drugs)

\* the fallback, taken when the first loop found nothing
OrFallback(found_drugs, normalized, drug_dict) ==
    IF found_drugs = <<>>
    THEN FallbackScan(drug_dict, FallbackTokens(normalized), 1, found_drugs)
    ELSE found_drugs

ExtractFrom(normalized, drug_dict) ==
    OrFallback(DirectScan(drug_dict, normalized, 1, <<>>), normalized, drug_dict)

\* extract_drug_names(text, drug_dict); text is None for a value that is no
\* string, drug_dict is the sequence of its items
extract_drug_names(text, drug_dict) ==
    IF IsNone(text) \/ Val(text) = "" THEN <<>>
    ELSE ExtractFrom(normalize_text(Val(text)), drug_dict)

----------------------------------------------------------------------------
(* calculate_time_diff_minutes *)

\* s.split(sep) / re.split(sep, s) for a one-character separator
RECURSIVE SplitOn(_, _, _, _)
SplitOn(s, sep, i, cur) ==
    IF i > Len(s) THEN <<cur>>
    ELSE IF CharAt(s, i) = sep THEN <<cur>> \o SplitOn(s, sep, i + 1, "")
    ELSE SplitOn(s, sep, i + 1, cur \o CharAt(s, i))

DigitChars == CharsOf(DIGITS)
DigitOf == [c \in DigitChars |-> IndexOf(c, DIGITS) - 1]

\* str.strip()
RECURSIVE Strip(_)
Strip(s) ==
    IF Len(s) = 0 THEN s
    ELSE IF Head(s) = " " THEN Strip(Tail(s))
    ELSE IF CharAt(s, Len(s)) = " " THEN Strip(SubSeq(s, 1, Len(s) - 1))
    ELSE s

\* int(part): None stands for the ValueError of a part that is not a decimal numeral
RECURSIVE DigitsValue(_, _)
DigitsValue(s, acc) ==
    IF Len(s) = 0 THEN acc
    ELSE DigitsValue(Tail(s), 10 * acc + DigitOf[Head(s)])

\* a numeral without sign
Unsigned(t) ==
    IF t # "" /\ CharsOf(t) \subseteq DigitChars THEN Some(DigitsValue(t, 0)) ELSE None

Negated(n) == IF IsNone(n) THEN None ELSE Some(0 - Val(n))

\* a numeral that may carry a sign
Signed(t) ==
    IF t = "" THEN None
    ELSE IF Head(t) = "-" THEN Negated(Unsigned(Tail(t)))
    ELSE IF Head(t) = "+" THEN Unsigned(Tail(t))
    ELSE Unsigned(t)

\* int(s) for s of digits, signs, blanks and letters: blanks around the
\* numeral are dropped, one sign may lead it
ParseInt(s) == Signed(Strip(s))

\* the adjustment for times that cross midnight
AcrossMidnight(diff) ==
    IF diff < -720 THEN Some(diff + 1440)
    ELSE IF diff > 720 THEN Some(diff - 1440)
    ELSE Some(diff)

\* the difference of the two times, given int() of their parts
DiffOfFields(h1, m1, h2, m2) ==
    IF IsNone(h1) \/ IsNone(m1) \/ IsNone(h2) \/ IsNone(m2) THEN None
    ELSE AcrossMidnight((Val(h2) * 60 + Val(m2)) - (Val(h1) * 60 + Val(m1)))

DiffOfParts(t1_parts, t2_parts) ==
    IF Len(t1_parts) < 2 \/ Len(t2_parts) < 2 THEN None
    ELSE DiffOfFields(ParseInt(t1_parts[1]), ParseInt(t1_parts[2]),
                      ParseInt(t2_parts[1]), ParseInt(t2_parts[2]))

\* calculate_time_diff_minutes(time1, time2): the minutes of time2 - time1, or
\* None when the try block raises (fewer than two parts, a part that is no number)
calculate_time_diff_minutes(time1, time2) ==
    DiffOfParts(SplitOn(time1, ":", 1, ""), SplitOn(time2, ":", 1, ""))

----------------------------------------------------------------------------
(* config/settings.py *)

\* AUDIT_CONFIG; a threshold 0.70 is the rational 70/100
AUDIT_CONFIG ==
    [ match_threshold                        |-> Rat(70, 100),
      translation_match_similarity_threshold |-> Rat(45, 100),
      dose_tolerance_percent                 |-> 15,
      hard_dose_tolerance_percent            |-> 100,
      timing_window_minutes                  |-> 60,
      alert_dose_tolerance_percent           |-> 10 ]

\* REDOSING_INTERVALS, minutes
REDOSING_INTERVALS ==
    [ CEFAZOLINA     |-> 240,
      CEFUROXIMA     |-> 240,
      CEFOXITINA     |-> 120,
      CLINDAMICINA   |-> 360,
      VANCOMICINA    |-> 0,
      GENTAMICINA    |-> 0,
      CIPROFLOXACINO |-> 0 ]

\* dict.get(key, default)
Get(dict, key, default) == IF key \in DOMAIN dict THEN dict[key] ELSE default

----------------------------------------------------------------------------
(* models/protocol_rules.py *)

\* The dose text of a Drug, by what the two parsers of _validate_dose read in it:
\*   NoDose                      None or ""
\*   PerKg(c, u)                 a text the mg/kg pattern finds "c u/KG" in
\*   Flat(<<[n, unit], ...>>)    a text with the listed "n G" / "n MG" amounts
\*                               and no "/KG" (no amount: an unparseable text)
\*   NonString                   a JSON number left as it is by Drug.from_dict
NoDose == [kind |-> "none"]
PerKg(c, u) == [kind |-> "perkg", coef |-> c, unit |-> u]
Flat(parts) == [kind |-> "flat", parts |-> parts]
NonString == [kind |-> "nonstring"]
Amount(n, u) == [n |-> n, unit |-> u]

Drug(name, dose) == [name |-> name, dose |-> dose]

\* ProtocolRule(...); a recommendation is its drugs list
ProtocolRule(id, proc, proc_norm, required, primary, allergy, aliases) ==
    [ rule_id                 |-> id,
      procedure               |-> proc,
      procedure_normalized    |-> proc_norm,
      is_prophylaxis_required |-> required,
      primary_recommendation  |-> primary,
      allergy_recommendation  |-> allergy,
      surgery_name            |-> aliases ]

\* ProtocolRulesRepository._build_index: normalized procedure -> list of rule ids
RECURSIVE _build_index(_)
_build_index(rules) ==
    IF Len(rules) = 0 THEN <<>>
    ELSE LET n == Len(rules)
             rule == rules[n]
             key == rule.procedure_normalized
             index == _build_index(SubSeq(rules, 1, n - 1))
         IN  IF key = "" THEN index
             ELSE IF key \in DOMAIN index
             THEN [index EXCEPT ![key] = Append(@, rule.rule_id)]
             ELSE [k \in DOMAIN index \cup {key} |->
                       IF k = key THEN <<rule.rule_id>> ELSE index[k]]

\* ProtocolRulesRepository.find_by_procedure
find_by_procedure(repo, procedure) ==
    LET rule_ids == SeqToSet(Get(repo._index, procedure, <<>>))
        hit(r) == r.rule_id \in rule_ids
    IN  SelectSeq(repo.rules, hit)

\* a repository holding `rules`, indexed
Repository(rules) == [rules |-> rules, _index |-> _build_index(rules)]

----------------------------------------------------------------------------
(* SurgeryAuditor: the four criteria *)

\* truth value of an Optional[str] / Optional[float] field
TruthyStr(o) == ~IsNone(o) /\ Val(o) # ""
TruthyNum(o) == ~IsNone(o) /\ Val(o) # 0

\* Mutant: only the primary recommendation is consulted.
_get_recommendation_drugs_PrimaryOnly(rule) ==
    IF IsNone(rule) THEN <<>>
    ELSE LET named(drug) == drug.name # ""
         IN  SelectSeq(Val(rule).primary_recommendation, named)

\* SurgeryAuditor._get_recommendation_drugs (rule is None or Some(rule))
_get_recommendation_drugs(rule) ==
    IF IsNone(rule) THEN <<>>
    ELSE LET named(drug) == drug.name # ""
         IN  SelectSeq(Val(rule).primary_recommendation \o Val(rule).allergy_recommendation,
                       named)

\* Mutant: only the is_prophylaxis_required flag decides.
_rule_requires_prophylaxis_FlagOnly(rule) ==
    IF IsNone(rule) THEN FALSE ELSE Val(rule).is_prophylaxis_required

\* SurgeryAuditor._rule_requires_prophylaxis
_rule_requires_prophylaxis(rule) ==
    IF IsNone(rule) THEN FALSE
    ELSE IF Val(rule).is_prophylaxis_required THEN TRUE
    ELSE Len(_get_recommendation_drugs(rule)) > 0

DrugNames(drugs) == {drugs[i].name : i \in 1..Len(drugs)}

\* Mutant: a missing rule is reported as a non-conformity.
_validate_choice_NoRuleNonConform(record, rule) ==
    IF IsNone(rule) THEN <<"NAO_CONFORME", "sem_match_protocolo">>
    ELSE LET recommended_drugs == _get_recommendation_drugs(rule)
             acceptable_names == DrugNames(recommended_drugs)
         IN  IF Len(recommended_drugs) = 0
             THEN IF ~_rule_requires_prophylaxis(rule)
                  THEN <<"ALERTA", "profilaxia_potencial_sem_indicacao">>
                  ELSE <<"INDETERMINADO", "atb_sem_referencia_protocolo">>
             ELSE IF Len(record.atb_detected) = 0
             THEN <<"INDETERMINADO", "atb_nao_identificado">>
             ELSE IF \E i \in 1..Len(record.atb_detected) :
                        record.atb_detected[i] \in acceptable_names
             THEN <<"CONFORME", "atb_recomendado">>
             ELSE IF ~_rule_requires_prophylaxis(rule)
             THEN <<"ALERTA", "profilaxia_potencial_sem_indicacao">>
             ELSE <<"NAO_CONFORME", "atb_nao_recomendado">>

\* Mutant: when no detected drug is recommended, the flag alone decides
\* between ALERTA and NAO_CONFORME.
_validate_choice_AlertOnFalseFlag(record, rule) ==
    IF IsNone(rule) THEN <<"INDETERMINADO", "sem_match_protocolo">>
    ELSE LET recommended_drugs == _get_recommendation_drugs(rule)
             acceptable_names == DrugNames(recommended_drugs)
         IN  IF Len(recommended_drugs) = 0
             THEN IF ~_rule_requires_prophylaxis(rule)
                  THEN <<"ALERTA", "profilaxia_potencial_sem_indicacao">>
                  ELSE <<"INDETERMINADO", "atb_sem_referencia_protocolo">>
             ELSE IF Len(record.atb_detected) = 0
             THEN <<"INDETERMINADO", "atb_nao_identificado">>
             ELSE IF \E i \in 1..Len(record.atb_detected) :
                        record.atb_detected[i] \in acceptable_names
             THEN <<"CONFORME", "atb_recomendado">>
             ELSE IF ~Val(rule).is_prophylaxis_required
             THEN <<"ALERTA", "profilaxia_potencial_sem_indicacao">>
             ELSE <<"NAO_CONFORME", "atb_nao_recomendado">>

\* SurgeryAuditor._validate_choice; returns <<status, razao>>
_validate_choice(record, rule) ==
    IF IsNone(rule) THEN <<"INDETERMINADO", "sem_match_protocolo">>
    ELSE LET recommended_drugs == _get_recommendation_drugs(rule)
             acceptable_names == DrugNames(recommended_drugs)
         IN  IF Len(recommended_drugs) = 0
             THEN IF ~_rule_requires_prophylaxis(rule)
                  THEN <<"ALERTA", "profilaxia_potencial_sem_indicacao">>
                  ELSE <<"INDETERMINADO", "atb_sem_referencia_protocolo">>
             ELSE IF Len(record.atb_detected) = 0
             THEN <<"INDETERMINADO", "atb_nao_identificado">>
             ELSE IF \E i \in 1..Len(record.atb_detected) :
                        record.atb_detected[i] \in acceptable_names
             THEN <<"CONFORME", "atb_recomendado">>
             ELSE IF ~_rule_requires_prophylaxis(rule)
             THEN <<"ALERTA", "profilaxia_potencial_sem_indicacao">>
             ELSE <<"NAO_CONFORME", "atb_nao_recomendado">>

\* Mutant: the first recommended drug that was detected, in the order of the
\* recommendations.
_select_reference_drug_CandidateOrder(record, rule) ==
    LET candidates == _get_recommendation_drugs(rule)
        hits == {j \in 1..Len(candidates) : candidates[j].name \in SeqToSet(record.atb_detected)}
    IN  IF Len(candidates) = 0 THEN None
        ELSE IF hits # {} THEN Some(candidates[CHOOSE j \in hits : \A k \in hits : j <= k])
        ELSE Some(candidates[1])

\* SurgeryAuditor._select_reference_drug; None or Some(drug)
_select_reference_drug(record, rule) ==
    LET candidates == _get_recommendation_drugs(rule)
        det == record.atb_detected
        hits == {i \in 1..Len(det) : det[i] \in DrugNames(candidates)}
    IN  IF Len(candidates) = 0 THEN None
        ELSE IF hits # {}
        THEN LET i == CHOOSE i \in hits : \A k \in hits : i <= k
                 j == CHOOSE j \in 1..Len(candidates) :
                          /\ candidates[j].name = det[i]
                          /\ \A k \in 1..(j - 1) : candidates[k].name # det[i]
             IN  Some(candidates[j])
        ELSE Some(candidates[1])

\* extract_dose_from_text on a Flat dose text: grams times 1000, milligrams as
\* they are, the largest amount; None when the text holds no amount
extract_dose_from_text(text) ==
    LET mg(a) == IF a.unit = "G" THEN a.n * 1000 ELSE a.n
        candidates_mg == {mg(text.parts[i]) : i \in 1..Len(text.parts)}
    IN  IF candidates_mg = {} THEN None
        ELSE Some(CHOOSE m \in candidates_mg : \A k \in candidates_mg : k <= m)

\* Mutant: the 3000 mg cap starts above 120 kg.
WeightBasedDose_CapAbove120(reference_drug, patient_weight) ==
    LET mg_per_kg == IF reference_drug.dose.unit = "G"
                     THEN reference_drug.dose.coef * 1000 ELSE reference_drug.dose.coef
        expected_mg == mg_per_kg * patient_weight
        cap_mg == IF patient_weight > 120 THEN 3000 ELSE 2000
    IN  IF reference_drug.name = "CEFAZOLINA" THEN Min(expected_mg, cap_mg) ELSE expected_mg

\* Mutant: the cap is applied to every drug.
WeightBasedDose_CapAllDrugs(reference_drug, patient_weight) ==
    LET mg_per_kg == IF reference_drug.dose.unit = "G"
                     THEN reference_drug.dose.coef * 1000 ELSE reference_drug.dose.coef
        expected_mg == mg_per_kg * patient_weight
        cap_mg == IF patient_weight >= 120 THEN 3000 ELSE 2000
    IN  Min(expected_mg, cap_mg)

\* _validate_dose, the weight-based expected dose with the CEFAZOLINA cap
WeightBasedDose(reference_drug, patient_weight) ==
    LET mg_per_kg == IF reference_drug.dose.unit = "G"
                     THEN reference_drug.dose.coef * 1000 ELSE reference_drug.dose.coef
        expected_mg == mg_per_kg * patient_weight
        cap_mg == IF patient_weight >= 120 THEN 3000 ELSE 2000
    IN  IF reference_drug.name = "CEFAZOLINA" THEN Min(expected_mg, cap_mg) ELSE expected_mg

\* abs(diff_pct) <= tolerance, diff_pct the rational p
AbsLe(p, tolerance) == Abs(p.n) <= tolerance * p.d

\* Mutant: the hard tolerance bound is exclusive.
DoseBand_HardExclusive(diff_pct, cfg) ==
    LET alert_tolerance == Get(cfg, "alert_dose_tolerance_percent", 10)
        tolerance == Get(cfg, "dose_tolerance_percent", 15)
        hard_tolerance == Get(cfg, "hard_dose_tolerance_percent", 100)
    IN  IF AbsLe(diff_pct, alert_tolerance) THEN <<"CONFORME", "dose_correta">>
        ELSE IF AbsLe(diff_pct, tolerance) THEN <<"ALERTA", "dose_pequena_diferenca">>
        ELSE IF Abs(diff_pct.n) < hard_tolerance * diff_pct.d
        THEN <<"ALERTA", "dose_fora_referencia">>
        ELSE IF diff_pct.n < -tolerance * diff_pct.d
        THEN <<"NAO_CONFORME", "dose_muito_baixa">>
        ELSE <<"NAO_CONFORME", "dose_muito_alta">>

\* Mutant: a dose below the tolerance is a non-conformity.
DoseBand_LowNonConform(diff_pct, cfg) ==
    LET alert_tolerance == Get(cfg, "alert_dose_tolerance_percent", 10)
        tolerance == Get(cfg, "dose_tolerance_percent", 15)
        hard_tolerance == Get(cfg, "hard_dose_tolerance_percent", 100)
    IN  IF AbsLe(diff_pct, alert_tolerance) THEN <<"CONFORME", "dose_correta">>
        ELSE IF AbsLe(diff_pct, tolerance) THEN <<"ALERTA", "dose_pequena_diferenca">>
        ELSE IF diff_pct.n < -tolerance * diff_pct.d
        THEN <<"NAO_CONFORME", "dose_muito_baixa">>
        ELSE IF AbsLe(diff_pct, hard_tolerance) THEN <<"ALERTA", "dose_fora_referencia">>
        ELSE <<"NAO_CONFORME", "dose_muito_alta">>

\* _validate_dose, the tolerance bands
DoseBand(diff_pct, cfg) ==
    LET alert_tolerance == Get(cfg, "alert_dose_tolerance_percent", 10)
        tolerance == Get(cfg, "dose_tolerance_percent", 15)
        hard_tolerance == Get(cfg, "hard_dose_tolerance_percent", 100)
    IN  IF AbsLe(diff_pct, alert_tolerance) THEN <<"CONFORME", "dose_correta">>
        ELSE IF AbsLe(diff_pct, tolerance) THEN <<"ALERTA", "dose_pequena_diferenca">>
        ELSE IF AbsLe(diff_pct, hard_tolerance) THEN <<"ALERTA", "dose_fora_referencia">>
        ELSE IF diff_pct.n < -tolerance * diff_pct.d
        THEN <<"NAO_CONFORME", "dose_muito_baixa">>
        ELSE <<"NAO_CONFORME", "dose_muito_alta">>

\* what a criterion hands back: the status pair, the result as the criterion left
\* it, and the exception it raised, if any
Outcome(pair, res) == [status |-> pair[1], razao |-> pair[2], result |-> res, error |-> None]
Raised(msg, res) == [status |-> "", razao |-> "", result |-> res, error |-> Some(msg)]

\* _validate_dose, from the two doses on
DoseOutcome(res, administered_mg, recommended_dose_mg, cfg) ==
    LET diff_mg == administered_mg - recommended_dose_mg
        diff_pct == IF recommended_dose_mg > 0
                    THEN Rat(diff_mg * 100, recommended_dose_mg)
                    ELSE Zero
    IN  Outcome(DoseBand(diff_pct, cfg),
                [res EXCEPT !.dose_diferenca_mg = Some(diff_mg),
                            !.dose_diferenca_pct = Some(diff_pct)])

\* _validate_dose, from the recommended dose on (None when the text holds none)
DoseAgainst(record, res, recommended_dose, cfg) ==
    IF ~TruthyNum(recommended_dose)
    THEN Outcome(<<"INDETERMINADO", "dose_sem_referencia">>, res)
    ELSE IF ~TruthyNum(record.dose_administered_mg)
    THEN Outcome(<<"INDETERMINADO", "dose_nao_informada">>, res)
    ELSE DoseOutcome(res, Val(record.dose_administered_mg), Val(recommended_dose), cfg)

\* _validate_dose, from the reference drug on
DoseOfReference(record, res, reference_drug, cfg) ==
    IF IsNone(reference_drug)
    THEN Outcome(<<"INDETERMINADO", "dose_sem_referencia">>, res)
    ELSE IF Val(reference_drug).dose.kind = "none"
    THEN Outcome(<<"INDETERMINADO", "dose_sem_referencia">>, res)
    ELSE IF Val(reference_drug).dose.kind = "nonstring"
    THEN Raised("expected string or bytes-like object, got 'int'", res)
    ELSE IF Val(reference_drug).dose.kind = "perkg"
    THEN IF ~TruthyNum(record.patient_weight) \/ Val(record.patient_weight) <= 0
         THEN Outcome(<<"INDETERMINADO", "dose_sem_referencia_peso">>, res)
         ELSE IF ~TruthyNum(record.dose_administered_mg)
         THEN Outcome(<<"INDETERMINADO", "dose_nao_informada">>, res)
         ELSE DoseOutcome(res, Val(record.dose_administered_mg),
                          WeightBasedDose(Val(reference_drug), Val(record.patient_weight)),
                          cfg)
    ELSE DoseAgainst(record, res, extract_dose_from_text(Val(reference_drug).dose), cfg)

\* SurgeryAuditor._validate_dose
_validate_dose(record, rule, res, cfg) ==
    IF IsNone(rule) THEN Outcome(<<"INDETERMINADO", "dose_sem_referencia">>, res)
    ELSE DoseOfReference(record, res, _select_reference_drug(record, rule), cfg)

\* Mutant: the upper bound of the window is exclusive.
TimingOutcome_WindowExclusive(res, diff_min, timing_window) ==
    IF IsNone(diff_min)
    THEN Outcome(<<"INDETERMINADO", "erro_calculo_horario">>, res)
    ELSE IF Val(diff_min) < 0
    THEN Outcome(<<"NAO_CONFORME", "timing_apos_incisao">>,
                 [res EXCEPT !.timing_diferenca_minutos = diff_min])
    ELSE IF 0 <= Val(diff_min) /\ Val(diff_min) < timing_window
    THEN Outcome(<<"CONFORME", "timing_correto">>,
                 [res EXCEPT !.timing_diferenca_minutos = diff_min])
    ELSE Outcome(<<"NAO_CONFORME", "timing_fora_janela">>,
                 [res EXCEPT !.timing_diferenca_minutos = diff_min])

\* _validate_timing, from the difference in minutes on
TimingOutcome(res, diff_min, timing_window) ==
    IF IsNone(diff_min)
    THEN Outcome(<<"INDETERMINADO", "erro_calculo_horario">>, res)
    ELSE IF Val(diff_min) < 0
    THEN Outcome(<<"NAO_CONFORME", "timing_apos_incisao">>,
                 [res EXCEPT !.timing_diferenca_minutos = diff_min])
    ELSE IF 0 <= Val(diff_min) /\ Val(diff_min) <= timing_window
    THEN Outcome(<<"CONFORME", "timing_correto">>,
                 [res EXCEPT !.timing_diferenca_minutos = diff_min])
    ELSE Outcome(<<"NAO_CONFORME", "timing_fora_janela">>,
                 [res EXCEPT !.timing_diferenca_minutos = diff_min])

\* Mutant: a missing time counts as a difference of 0 minutes.
_validate_timing_ZeroWhenMissing(record, res, cfg) ==
    IF ~TruthyStr(record.incision_time) \/ ~TruthyStr(record.atb_time)
    THEN Outcome(<<"INDETERMINADO", "horarios_nao_informados">>,
                 [res EXCEPT !.timing_diferenca_minutos = Some(0)])
    ELSE TimingOutcome(res,
                       calculate_time_diff_minutes(Val(record.atb_time),
                                                   Val(record.incision_time)),
                       Get(cfg, "timing_window_minutes", 60))

\* SurgeryAuditor._validate_timing
_validate_timing(record, res, cfg) ==
    IF ~TruthyStr(record.incision_time) \/ ~TruthyStr(record.atb_time)
    THEN Outcome(<<"INDETERMINADO", "horarios_nao_informados">>, res)
    ELSE TimingOutcome(res,
                       calculate_time_diff_minutes(Val(record.atb_time),
                                                   Val(record.incision_time)),
                       Get(cfg, "timing_window_minutes", 60))

\* Mutant: the upper end of the redosing interval is exclusive.
RedosingOutcome_UpperExclusive(res, diff_min, interval) ==
    IF IsNone(diff_min)
    THEN Outcome(<<"INDETERMINADO", "repique_horarios_nao_informados">>, res)
    ELSE IF interval - 30 <= Val(diff_min) /\ Val(diff_min) < interval + 30
    THEN Outcome(<<"CONFORME", "repique_no_intervalo">>,
                 [res EXCEPT !.repique_diferenca_minutos = diff_min])
    ELSE Outcome(<<"NAO_CONFORME", "repique_fora_intervalo">>,
                 [res EXCEPT !.repique_diferenca_minutos = diff_min])

\* Mutant: a redose outside the interval is an alert.
RedosingOutcome_AlertOutside(res, diff_min, interval) ==
    IF IsNone(diff_min)
    THEN Outcome(<<"INDETERMINADO", "repique_horarios_nao_informados">>, res)
    ELSE IF interval - 30 <= Val(diff_min) /\ Val(diff_min) <= interval + 30
    THEN Outcome(<<"CONFORME", "repique_no_intervalo">>,
                 [res EXCEPT !.repique_diferenca_minutos = diff_min])
    ELSE Outcome(<<"ALERTA", "repique_fora_intervalo">>,
                 [res EXCEPT !.repique_diferenca_minutos = diff_min])

\* _validate_redosing, from the difference in minutes on
RedosingOutcome(res, diff_min, interval) ==
    IF IsNone(diff_min)
    THEN Outcome(<<"INDETERMINADO", "repique_horarios_nao_informados">>, res)
    ELSE IF interval - 30 <= Val(diff_min) /\ Val(diff_min) <= interval + 30
    THEN Outcome(<<"CONFORME", "repique_no_intervalo">>,
                 [res EXCEPT !.repique_diferenca_minutos = diff_min])
    ELSE Outcome(<<"NAO_CONFORME", "repique_fora_intervalo">>,
                 [res EXCEPT !.repique_diferenca_minutos = diff_min])

\* _validate_redosing, from the drug name on
RedosingOf(record, res, drug_name, interval) ==
    IF drug_name = ""
    THEN Outcome(<<"INDETERMINADO", "atb_nao_identificado">>, res)
    ELSE IF interval <= 0
    THEN Outcome(<<"CONFORME", "repique_nao_aplicavel">>, res)
    ELSE IF ~TruthyStr(record.atb_time) \/ ~TruthyStr(record.repique_time)
    THEN Outcome(<<"INDETERMINADO", "repique_horarios_nao_informados">>, res)
    ELSE RedosingOutcome(res,
                         calculate_time_diff_minutes(Val(record.atb_time),
                                                     Val(record.repique_time)),
                         interval)

\* _validate_redosing: the first detected drug, else the first recommended one
RedosingDrug(record, res) ==
    IF Len(record.atb_detected) > 0 THEN record.atb_detected[1]
    ELSE IF Len(res.protocolo_atb_recomendados) > 0
    THEN res.protocolo_atb_recomendados[1]
    ELSE ""

RedosingOfDrug(record, res, drug_name) ==
    RedosingOf(record, res, drug_name, Get(REDOSING_INTERVALS, drug_name, 0))

\* SurgeryAuditor._validate_redosing
_validate_redosing(record, res) ==
    IF record.repique_done # "SIM"
    THEN Outcome(<<"CONFORME", "repique_nao_aplicavel">>, res)
    ELSE RedosingOfDrug(record, res, RedosingDrug(record, res))

----------------------------------------------------------------------------
(* SurgeryAuditor: matching a procedure with a protocol rule *)

\* the translation map SurgeryAuditor.__init__ builds from the pairs
\* <<excel_name, protocol_name>> of its argument, later pairs overwriting
RECURSIVE BuildTranslationMap(_)
BuildTranslationMap(pairs) ==
    IF Len(pairs) = 0 THEN <<>>
    ELSE LET n == Len(pairs)
             map == BuildTranslationMap(SubSeq(pairs, 1, n - 1))
             excel_name == pairs[n][1]
             protocol_name == pairs[n][2]
             key_norm == normalize_text(excel_name)
         IN  IF excel_name = "" \/ protocol_name = "" \/ key_norm = "" THEN map
             ELSE [k \in DOMAIN map \cup {key_norm} |->
                       IF k = key_norm THEN Strip(protocol_name) ELSE map[k]]

\* what the matchers return
Match(rule, score, method) == [rule |-> rule, score |-> score, method |-> method]

\* the first rule one of whose aliases normalizes to `name`, None if there is none
AliasMatch(rules, name) ==
    LET hit(i) == \E k \in 1..Len(rules[i].surgery_name) :
                      normalize_text(rules[i].surgery_name[k]) = name
        hits == {i \in 1..Len(rules) : hit(i)}
    IN  IF hits = {} THEN None
        ELSE Some(rules[CHOOSE i \in hits : \A k \in hits : i <= k])

\* targets of a rule in the fuzzy search: its normalized name, then its aliases
Targets(rule) ==
    LET nonblank(alias) == Strip(alias) # ""
        aliases == SelectSeq(rule.surgery_name, nonblank)
    IN  <<rule.procedure_normalized>> \o [k \in 1..Len(aliases) |-> normalize_text(aliases[k])]

\* the <<rule, target>> pairs in the order the two nested loops visit them
RECURSIVE AllTargets(_)
AllTargets(rules) ==
    IF Len(rules) = 0 THEN <<>>
    ELSE LET targets == Targets(Head(rules))
         IN  [k \in 1..Len(targets) |-> <<Head(rules), targets[k]>>] \o AllTargets(Tail(rules))

\* Mutant: a target that equals the best score replaces the best rule.
Better_LastWins(best, rule, score, threshold) ==
    IF RatLe(best.score, score) /\ RatLe(threshold, score)
    THEN [rule |-> Some(rule), score |-> score]
    ELSE best

\* the update of best_rule and best_score by one target
Better(best, rule, score, threshold) ==
    IF RatLt(best.score, score) /\ RatLe(threshold, score)
    THEN [rule |-> Some(rule), score |-> score]
    ELSE best

\* the fuzzy search for one text from pair k on, keeping the first highest score
\* at or above threshold
RECURSIVE FuzzyScan(_, _, _, _, _)
FuzzyScan(pairs, text, threshold, k, best) ==
    IF k > Len(pairs) THEN best
    ELSE FuzzyScan(pairs, text, threshold, k + 1,
                   Better(best, pairs[k][1], fuzzy_match_score(text, pairs[k][2]),
                          threshold))

NoBest == [rule |-> None, score |-> Zero]

\* SurgeryAuditor._translate_procedure_name
_translate_procedure_name(map, procedure) ==
    IF DOMAIN map = {} THEN "" ELSE Get(map, normalize_text(procedure), "")

\* SurgeryAuditor._is_translation_candidate_plausible
_is_translation_candidate_plausible(cfg, source_procedure, candidate) ==
    LET source_clean == clean_procedure_name(source_procedure)
        candidate_clean == clean_procedure_name(candidate)
        threshold == Get(cfg, "translation_match_similarity_threshold", Rat(45, 100))
    IN  IF source_clean = "" \/ candidate_clean = "" THEN FALSE
        ELSE IF IsSubstring(source_clean, candidate_clean)
                \/ IsSubstring(candidate_clean, source_clean) THEN TRUE
        ELSE RatLe(threshold, fuzzy_match_score(source_clean, candidate_clean))

\* the third loop of _match_translated_procedure, over the candidates in order
RECURSIVE TranslatedFuzzy(_, _, _, _, _)
TranslatedFuzzy(pairs, candidates, threshold, c, best) ==
    IF c > Len(candidates) THEN best
    ELSE TranslatedFuzzy(pairs, candidates, threshold, c + 1,
                         FuzzyScan(pairs, candidates[c], threshold, 1, best))

\* what a fuzzy search returns: its best rule, or no match
FuzzyResult(best, method, no_method) ==
    IF ~IsNone(best.rule) THEN Match(best.rule, best.score, method)
    ELSE Match(None, Zero, no_method)

\* _match_translated_procedure: the candidates, c.strip() of the non-blank pieces
\* of re.split(r"/", translated_procedure), or the text itself when there is none
NonBlankPieces(pieces) ==
    LET nonblank(c) == Strip(c) # ""
    IN  SelectSeq(pieces, nonblank)
StripAll(pieces) == [k \in 1..Len(pieces) |-> Strip(pieces[k])]
OrItself(candidates, translated_procedure) ==
    IF Len(candidates) = 0 THEN <<translated_procedure>> ELSE candidates
TranslationCandidates(translated_procedure) ==
    OrItself(StripAll(NonBlankPieces(SplitOn(translated_procedure, "/", 1, ""))),
             translated_procedure)

\* Mutant: no candidate is skipped.
PlausibleCandidates_All(cfg, source_procedure, candidates) == candidates

\* the candidates the three loops do not skip
PlausibleCandidates(cfg, source_procedure, candidates) ==
    LET plausible(c) == source_procedure = ""
                        \/ _is_translation_candidate_plausible(cfg, source_procedure, c)
    IN  SelectSeq(candidates, plausible)

\* Mutant's search for one candidate: exact, then alias, then fuzzy.
OneCandidate(repo, cfg, candidate) ==
    LET exact_matches == find_by_procedure(repo, normalize_text(candidate))
        alias == AliasMatch(repo.rules, normalize_text(candidate))
        threshold == Get(cfg, "match_threshold", Rat(70, 100))
    IN  IF Len(exact_matches) > 0
        THEN Match(Some(exact_matches[1]), One, "translated_exact_match")
        ELSE IF ~IsNone(alias) THEN Match(alias, One, "translated_alias_match")
        ELSE FuzzyResult(FuzzyScan(AllTargets(repo.rules), candidate, threshold, 1, NoBest),
                         "translated_fuzzy_match", "translated_no_match")

RECURSIVE CandidateByCandidate(_, _, _, _)
CandidateByCandidate(repo, cfg, surviving, k) ==
    IF k > Len(surviving) THEN Match(None, Zero, "translated_no_match")
    ELSE IF ~IsNone(OneCandidate(repo, cfg, surviving[k]).rule)
    THEN OneCandidate(repo, cfg, surviving[k])
    ELSE CandidateByCandidate(repo, cfg, surviving, k + 1)

\* Mutant: each candidate goes through the three searches before the next one.
MatchCandidates_PerCandidate(repo, cfg, surviving) ==
    CandidateByCandidate(repo, cfg, surviving, 1)

\* the three loops of _match_translated_procedure over the candidates not skipped
MatchCandidates(repo, cfg, surviving) ==
    LET exact(k) == find_by_procedure(repo, normalize_text(surviving[k]))
        exact_hits == {k \in 1..Len(surviving) : Len(exact(k)) > 0}
        alias(k) == AliasMatch(repo.rules, normalize_text(surviving[k]))
        alias_hits == {k \in 1..Len(surviving) : ~IsNone(alias(k))}
        threshold == Get(cfg, "match_threshold", Rat(70, 100))
    IN  IF exact_hits # {}
        THEN Match(Some(exact(CHOOSE k \in exact_hits : \A m \in exact_hits : k <= m)[1]),
                   One, "translated_exact_match")
        ELSE IF alias_hits # {}
        THEN Match(alias(CHOOSE k \in alias_hits : \A m \in alias_hits : k <= m),
                   One, "translated_alias_match")
        ELSE FuzzyResult(TranslatedFuzzy(AllTargets(repo.rules), surviving, threshold,
                                         1, NoBest),
                         "translated_fuzzy_match", "translated_no_match")

\* SurgeryAuditor._match_translated_procedure
_match_translated_procedure(repo, cfg, translated_procedure, source_procedure) ==
    MatchCandidates(repo, cfg,
                    PlausibleCandidates(cfg, source_procedure,
                                        TranslationCandidates(translated_procedure)))

\* _match_with_protocol, the searches for the cleaned procedure name
DirectSearch(repo, cfg, procedure_clean) ==
    LET exact_matches == find_by_procedure(repo, procedure_clean)
        alias == AliasMatch(repo.rules, procedure_clean)
        threshold == Get(cfg, "match_threshold", Rat(70, 100))
    IN  IF Len(exact_matches) > 0 THEN Match(Some(exact_matches[1]), One, "exact_match")
        ELSE IF ~IsNone(alias) THEN Match(alias, One, "alias_match")
        ELSE FuzzyResult(FuzzyScan(AllTargets(repo.rules), procedure_clean, threshold,
                                   1, NoBest),
                         "fuzzy_match", "no_match")

\* SurgeryAuditor._match_with_protocol, after the translation step
DirectMatch(repo, cfg, procedure) ==
    DirectSearch(repo, cfg, clean_procedure_name(procedure))

\* _match_with_protocol: the translated match when it found a rule
OrDirectMatch(repo, cfg, procedure, via) ==
    IF ~IsNone(via.rule) THEN via ELSE DirectMatch(repo, cfg, procedure)

\* _match_with_protocol: the translation step
MatchTranslated(repo, cfg, procedure, translated) ==
    IF translated = "" THEN DirectMatch(repo, cfg, procedure)
    ELSE OrDirectMatch(repo, cfg, procedure,
                       _match_translated_procedure(repo, cfg, translated, procedure))

\* SurgeryAuditor._match_with_protocol
_match_with_protocol(repo, cfg, map, procedure) ==
    IF procedure = "" THEN Match(None, Zero, "no_procedure")
    ELSE MatchTranslated(repo, cfg, procedure, _translate_procedure_name(map, procedure))

----------------------------------------------------------------------------
(* SurgeryAuditor.audit_surgery and audit_all_surgeries *)

\* AuditResult.add_observacao
add_observacao(res, obs) ==
    IF obs # "" /\ obs \notin SeqToSet(res.observacoes)
    THEN [res EXCEPT !.observacoes = Append(@, obs)]
    ELSE res

\* audit_surgery, step 1: the match and the protocol fields of the result
MatchStep(res, m) ==
    IF ~IsNone(m.rule)
    THEN LET recommended == _get_recommendation_drugs(m.rule)
         IN  [res EXCEPT !.matched_rule_id = Some(Val(m.rule).rule_id),
                         !.match_score = m.score,
                         !.match_method = m.method,
                         !.protocolo_requer_profilaxia = Val(m.rule).is_prophylaxis_required,
                         !.protocolo_atb_recomendados =
                             [k \in 1..Len(recommended) |-> recommended[k].name]]
    ELSE add_observacao([res EXCEPT !.match_score = Zero],
                        "Procedimento nao encontrado no protocolo")

\* audit_surgery, step 2: the choice criterion
ChoiceStep(res, record, rule) ==
    LET pair == IF record.atb_given = "SIM" THEN _validate_choice(record, rule)
                ELSE IF ~IsNone(rule) /\ _rule_requires_prophylaxis(rule)
                THEN <<"NAO_CONFORME", "atb_nao_administrado">>
                ELSE IF IsNone(rule) THEN <<"CONFORME", "sem_match_sem_atb">>
                ELSE <<"CONFORME", "Profilaxia nao requerida">>
    IN  [res EXCEPT !.conf_escolha = pair[1], !.conf_escolha_razao = pair[2]]

\* audit_surgery, step 3: the dose criterion
DoseStep(res, record, rule, cfg) ==
    IF record.atb_given = "SIM" /\ TruthyNum(record.dose_administered_mg)
    THEN _validate_dose(record, rule, res, cfg)
    ELSE IF record.atb_given = "SIM"
    THEN Outcome(<<"INDETERMINADO", "dose_nao_informada">>, res)
    ELSE Outcome(<<"CONFORME", "criterio_nao_aplicavel">>, res)

\* audit_surgery, step 4: the timing criterion
TimingStep(res, record, cfg) ==
    IF record.atb_given = "SIM" THEN _validate_timing(record, res, cfg)
    ELSE Outcome(<<"CONFORME", "criterio_nao_aplicavel">>, res)

\* audit_surgery, step 5: the redosing criterion
RedosingStep(res, record) ==
    IF record.atb_given = "SIM" THEN _validate_redosing(record, res)
    ELSE Outcome(<<"CONFORME", "criterio_nao_aplicavel">>, res)

\* what audit_surgery does: returns a result (error = None) or raises (error = Some)
Returned(res) == [error |-> None, result |-> res]
Raises(msg) == [error |-> Some(msg), result |-> None]

\* audit_surgery: the pair a criterion returned, stored in the result
SetDose(o) == [o.result EXCEPT !.conf_dose = o.status, !.conf_dose_razao = o.razao]
SetTiming(o) == [o.result EXCEPT !.conf_timing = o.status, !.conf_timing_razao = o.razao]
SetRepique(o) == [o.result EXCEPT !.conf_repique = o.status, !.conf_repique_razao = o.razao]
SetFinal(res, final) == [res EXCEPT !.conf_final = final[1], !.conf_final_razao = final[2]]

\* audit_surgery, step 6 and the return
FinalStep(res) == Returned(SetFinal(res, _calculate_final_conformity(res)))

\* audit_surgery from step 4 on, `dose` what step 3 handed back
AuditFromTiming(cfg, record, dose) ==
    IF ~IsNone(dose.error) THEN Raises(Val(dose.error))
    ELSE FinalStep(SetRepique(RedosingStep(
             SetTiming(TimingStep(SetDose(dose), record, cfg)), record)))

\* audit_surgery from step 2 on, `m` what _match_with_protocol returned
AuditFromChoice(cfg, record, m) ==
    AuditFromTiming(cfg, record,
        DoseStep(ChoiceStep(MatchStep(AuditResult(record), m), record, m.rule),
                 record, m.rule, cfg))

\* SurgeryAuditor.audit_surgery
audit_surgery(repo, cfg, map, record) ==
    AuditFromChoice(cfg, record, _match_with_protocol(repo, cfg, map, record.procedure))

\* the result audit_all_surgeries builds in its except branch:
\* f'Erro na auditoria: {str(e)}'
ErrorResult(record, e) ==
    [AuditResult(record) EXCEPT !.conf_final = "INDETERMINADO",
                                !.conf_final_razao = "Erro na auditoria: " \o e]

\* one pass of the loop body: the result appended for `record`, `step` what
\* audit_surgery did with it
Appended(results, record, step) ==
    Append(results, IF IsNone(step.error) THEN step.result
                    ELSE ErrorResult(record, Val(step.error)))

\* Mutant's loop body: the except branch logs the error and appends nothing.
AppendedUnlessFailed(results, record, step) ==
    IF IsNone(step.error) THEN Append(results, step.result) ELSE results

RECURSIVE LoopDroppingFailed(_, _, _, _, _, _)
LoopDroppingFailed(repo, cfg, map, records, i, results) ==
    IF i > Len(records) THEN results
    ELSE LoopDroppingFailed(repo, cfg, map, records, i + 1,
             AppendedUnlessFailed(results, records[i],
                                  audit_surgery(repo, cfg, map, records[i])))

\* Mutant: the except branch logs the error and appends nothing.
AuditLoop_DropFailed(repo, cfg, map, records, i, results) ==
    LoopDroppingFailed(repo, cfg, map, records, i, results)

\* Mutant's loop: the exception is recorded and then ends the loop.
RECURSIVE LoopStoppingAtError(_, _, _, _, _, _)
LoopStoppingAtError(repo, cfg, map, records, i, results) ==
    IF i > Len(records) THEN results
    ELSE IF i > 1 /\ Len(results) > 0
            /\ SubSeq(results[Len(results)].conf_final_razao, 1, 4) = "Erro"
    THEN results
    ELSE LoopStoppingAtError(repo, cfg, map, records, i + 1,
             Appended(results, records[i], audit_surgery(repo, cfg, map, records[i])))

\* Mutant: the exception is recorded and then ends the loop.
AuditLoop_StopAtError(repo, cfg, map, records, i, results) ==
    LoopStoppingAtError(repo, cfg, map, records, i, results)

\* the for loop of audit_all_surgeries from record i on, results so far in `results`
RECURSIVE AuditLoop(_, _, _, _, _, _)
AuditLoop(repo, cfg, map, records, i, results) ==
    IF i > Len(records) THEN results
    ELSE AuditLoop(repo, cfg, map, records, i + 1,
                   Appended(results, records[i], audit_surgery(repo, cfg, map, records[i])))

\* Mutant: the loop appends to the list the auditor already holds.
audit_all_surgeries_Appending(repo, cfg, map, records) ==
    AuditLoop(repo, cfg, map, records, 1, audit_results)

\* SurgeryAuditor.audit_all_surgeries: the new value of audit_results
audit_all_surgeries(repo, cfg, map, records) ==
    AuditLoop(repo, cfg, map, records, 1, <<>>)

----------------------------------------------------------------------------
(* The inputs of the model *)

MaxRecords == 2     \* longest batch of records loaded

\* protocol rules
RuleCesariana ==
    ProtocolRule("rule_1", "Cesariana", "cesariana", FALSE,
                 <<Drug("CEFAZOLINA", Flat(<<Amount(2000, "MG")>>))>>, <<>>, <<>>)
RuleHernia ==
    ProtocolRule("rule_2", "Cirurgia de Hernia", "cirurgia de hernia", TRUE,
                 <<Drug("CEFAZOLINA", PerKg(30, "MG"))>>,
                 <<Drug("CLINDAMICINA", Flat(<<Amount(900, "MG")>>))>>,
                 <<"Hernioplastia", "Hernia">>)
RuleBiopsia ==
    ProtocolRule("rule_3", "Biopsia", "biopsia", FALSE, <<>>, <<>>, <<>>)
RuleLimpa ==
    ProtocolRule("rule_4", "Cirurgia limpa", "limpa", TRUE,
                 <<Drug("", NoDose)>>, <<>>, <<>>)
RuleCesarianaNumber ==
    ProtocolRule("rule_5", "Cesariana", "cesariana", TRUE,
                 <<Drug("CEFAZOLINA", NonString)>>, <<>>, <<>>)

RuleSets ==
    { <<>>,
      <<RuleCesariana, RuleHernia>>,
      <<RuleBiopsia, RuleLimpa, RuleHernia>>,
      <<RuleCesarianaNumber, RuleBiopsia>> }

\* the config argument of the constructor: None, {} or a dictionary
InvalidConfig ==
    [ match_threshold              |-> Rat(150, 100),
      dose_tolerance_percent       |-> -15,
      hard_dose_tolerance_percent  |-> 100,
      alert_dose_tolerance_percent |-> 10 ]
ConfigArgs == { None, Some(<<>>), Some(AUDIT_CONFIG), Some(InvalidConfig) }

\* the procedure_translation_map argument of the constructor
TranslationArgs ==
    { <<>>, << <<"PARTO CESAREO", "Cesariana / Biopsia">>, <<"", "Biopsia">> >> }

Procedures == {"Cesariana", "Hernia inguinal", "Parto cesareo", "Procedimento desconhecido"}
DetectedDrugs == {<<>>, <<"CEFAZOLINA">>, <<"CEFTRIAXONE">>, <<"VANCOMICINA", "CLINDAMICINA">>}
AdministeredDoses == {None, Some(2000)}
IncisionTimes == {None, Some("07:30")}
AtbTimes == {Some("07:00"), Some("08:00")}
Weights == {None, Some(70)}
\* <<repique_done, repique_time>>
Redosings == {<<"NAO", None>>, <<"SIM", Some("11:10")>>}

\* the records audit_surgery is called with
Records ==
    { [ procedure            |-> p,
        incision_time        |-> it,
        atb_time             |-> at,
        repique_time         |-> rd[2],
        atb_given            |-> g,
        atb_detected         |-> d,
        dose_administered_mg |-> a,
        repique_done         |-> rd[1],
        patient_weight       |-> w,
        row_index            |-> -1 ] :
      p \in Procedures, it \in IncisionTimes, at \in AtbTimes,
      g \in {"SIM", "NAO"}, d \in DetectedDrugs, a \in AdministeredDoses, w \in Weights,
      rd \in Redosings }

\* the rows a batch is loaded from
BatchRecords ==
    { [SurgeryRecord EXCEPT !.procedure = "Cesariana", !.atb_given = "SIM",
                            !.atb_detected = <<"CEFAZOLINA">>,
                            !.dose_administered_mg = Some(2000),
                            !.atb_time = Some("07:00"), !.incision_time = Some("07:30")],
      [SurgeryRecord EXCEPT !.procedure = "Cesariana", !.atb_given = "SIM",
                            !.atb_detected = <<"CEFAZOLINA">>,
                            !.atb_time = Some("08:00"), !.incision_time = Some("07:30")],
      [SurgeryRecord EXCEPT !.procedure = "Procedimento desconhecido", !.atb_given = "SIM",
                            !.atb_detected = <<"CEFTRIAXONE">>,
                            !.dose_administered_mg = Some(2000)],
      [SurgeryRecord EXCEPT !.procedure = "Hernia inguinal"] }

\* the batches of at most MaxRecords rows, row k carrying row_index k - 1
Batches ==
    UNION { { [k \in 1..n |-> [rows[k] EXCEPT !.row_index = k - 1]] :
              rows \in [1..n -> BatchRecords] } : n \in 0..MaxRecords }

----------------------------------------------------------------------------
(* The auditor as a state machine *)

\* SurgeryAuditor.__init__
__init__(rules, config_arg, translation_arg) ==
    /\ rules_repo = Repository(rules)
    /\ config = IF IsNone(config_arg) \/ DOMAIN Val(config_arg) = {}
                THEN AUDIT_CONFIG ELSE Val(config_arg)
    /\ procedure_translation_map = BuildTranslationMap(translation_arg)
    /\ surgery_records = <<>>
    /\ audit_results = <<>>

Init ==
    /\ \E rules \in RuleSets, config_arg \in ConfigArgs, translation_arg \in TranslationArgs :
           __init__(rules, config_arg, translation_arg)
    /\ result = None
    /\ pc = "constructed"

\* load_surgeries_from_excel: the records list is rebuilt from the rows read; the
\* scripts load before they audit
LoadSurgeries(records) ==
    /\ pc \in {"constructed", "loaded"}
    /\ surgery_records' = records
    /\ pc' = "loaded"
    /\ UNCHANGED <<rules_repo, config, procedure_translation_map, audit_results, result>>

\* a call with its argument
CallOf(record, call) == [record |-> record, error |-> call.error, result |-> call.result]

\* a call of audit_surgery(record): `result` keeps the argument with what the call
\* returned or raised
AuditSurgery(record) ==
    /\ pc = "constructed"
    /\ result' = Some(CallOf(record, audit_surgery(rules_repo, config,
                                                    procedure_translation_map, record)))
    /\ pc' = "audit_surgery"
    /\ UNCHANGED <<rules_repo, config, procedure_translation_map, surgery_records,
                   audit_results>>

\* a call of audit_all_surgeries()
AuditAllSurgeries ==
    /\ pc \in {"loaded", "audited"}
    /\ audit_results' = audit_all_surgeries(rules_repo, config, procedure_translation_map,
                                            surgery_records)
    /\ pc' = "audited"
    /\ UNCHANGED <<rules_repo, config, procedure_translation_map, surgery_records, result>>

Next ==
    \/ \E records \in Batches : LoadSurgeries(records)
    \/ \E record \in Records : AuditSurgery(record)
    \/ AuditAllSurgeries

Spec == Init /\ [][Next]_vars

----------------------------------------------------------------------------
(* The final combinator on every combination of criterion statuses *)

\* reasons the criteria can leave; the choice reason may be empty
ChoiceReasons == {"", "atb_sem_referencia_protocolo"}
MatchScores == {Zero, Rat(85, 100), One}

\* a result as audit_surgery holds it when step 6 starts
CriteriaResults ==
    { [AuditResult(SurgeryRecord) EXCEPT
           !.match_score = ms,
           !.conf_escolha = ce, !.conf_escolha_razao = cr,
           !.conf_dose = cd, !.conf_dose_razao = "razao_dose",
           !.conf_timing = ct, !.conf_timing_razao = "razao_timing",
           !.conf_repique = cp, !.conf_repique_razao = "razao_repique"] :
      ms \in MatchScores, ce \in STATUSES, cr \in ChoiceReasons,
      cd \in STATUSES, ct \in STATUSES, cp \in STATUSES }

InitFinal ==
    /\ __init__(<<>>, None, <<>>)
    /\ \E res \in CriteriaResults : result = Some([error |-> None, result |-> res])
    /\ pc = "criteria"

\* audit_surgery, step 6
CalculateFinal ==
    /\ pc = "criteria"
    /\ LET res == Val(result).result
           final == _calculate_final_conformity(res)
       IN  result' = Some([error |-> None,
                           result |-> [res EXCEPT !.conf_final = final[1],
                                                  !.conf_final_razao = final[2]]])
    /\ pc' = "final"
    /\ UNCHANGED <<rules_repo, config, procedure_translation_map, surgery_records,
                   audit_results>>

NextFinal == CalculateFinal

SpecFinal == InitFinal /\ [][NextFinal]_vars

\* the AuditResult in `result`
Res == Val(result).result
CriterionStatuses == {Res.conf_escolha, Res.conf_dose, Res.conf_timing, Res.conf_repique}

\* C1, as stated: whenever at least one of the four criterion statuses is
\* NAO_CONFORME, the final status is NAO_CONFORME, whatever the other three are.
C1_PrecedenceLaw ==
    (pc = "final" /\ "NAO_CONFORME" \in CriterionStatuses)
        => Res.conf_final = "NAO_CONFORME"

\* C1, amended: whenever the choice status is not INDETERMINADO and at least one
\* of the four criterion statuses is NAO_CONFORME, the final status is
\* NAO_CONFORME, whatever the other statuses are.
C1_PrecedenceBehindGate ==
    (pc = "final" /\ Res.conf_escolha # "INDETERMINADO"
                  /\ "NAO_CONFORME" \in CriterionStatuses)
        => Res.conf_final = "NAO_CONFORME"

C1_Witness ==
    /\ pc = "final"
    /\ Res.conf_escolha = "ALERTA"
    /\ Res.conf_dose = "ALERTA"
    /\ Res.conf_timing = "NAO_CONFORME"
    /\ Res.conf_repique = "INDETERMINADO"
    /\ Res.conf_final = "NAO_CONFORME"

\* C2: whenever the choice status is INDETERMINADO the final status is ALERTA,
\* whatever dose, timing and redosing are; the final reason is
\* sem_match_protocolo when match_score is 0, otherwise the choice reason, or
\* dados_insuficientes when the choice reason is empty.
C2_ChoiceGate ==
    (pc = "final" /\ Res.conf_escolha = "INDETERMINADO")
        => /\ Res.conf_final = "ALERTA"
           /\ Res.match_score.n = 0 => Res.conf_final_razao = "sem_match_protocolo"
           /\ (Res.match_score.n # 0 /\ Res.conf_escolha_razao # "")
                  => Res.conf_final_razao = Res.conf_escolha_razao
           /\ (Res.match_score.n # 0 /\ Res.conf_escolha_razao = "")
                  => Res.conf_final_razao = "dados_insuficientes"

C2_Witness ==
    /\ pc = "final"
    /\ Res.conf_escolha = "INDETERMINADO"
    /\ Res.conf_dose = "NAO_CONFORME"
    /\ Res.match_score.n # 0
    /\ Res.conf_escolha_razao = ""
    /\ Res.conf_final = "ALERTA"
    /\ Res.conf_final_razao = "dados_insuficientes"

\* C5: when the choice status is CONFORME and each of dose, timing and redosing
\* is CONFORME or INDETERMINADO, the final status is CONFORME with reason
\* todos_criterios_conformes.
C5_SecondaryIndeterminado ==
    (pc = "final" /\ Res.conf_escolha = "CONFORME"
                  /\ {Res.conf_dose, Res.conf_timing, Res.conf_repique}
                         \subseteq {"CONFORME", "INDETERMINADO"})
        => /\ Res.conf_final = "CONFORME"
           /\ Res.conf_final_razao = "todos_criterios_conformes"

C5_Witness ==
    /\ pc = "final"
    /\ Res.conf_escolha = "CONFORME"
    /\ Res.conf_dose = "INDETERMINADO"
    /\ Res.conf_timing = "CONFORME"
    /\ Res.conf_repique = "INDETERMINADO"
    /\ Res.conf_final = "CONFORME"

----------------------------------------------------------------------------
(* The dose criterion on ranges of doses and weights *)

MaxNegativeDose == 10     \* administered doses start this many mg below zero
MaxDose == 210     \* highest administered dose of the range, mg

\* rules with a fixed reference dose
RuleFlat100 ==
    ProtocolRule("rule_6", "Postectomia", "postectomia", TRUE,
                 <<Drug("CEFAZOLINA", Flat(<<Amount(100, "MG")>>))>>, <<>>, <<>>)
RuleFlat40 ==
    ProtocolRule("rule_7", "Frenectomia", "frenectomia", TRUE,
                 <<Drug("GENTAMICINA", Flat(<<Amount(40, "MG")>>))>>, <<>>, <<>>)
\* a rule whose reference doses are weight-based
RulePerKg ==
    ProtocolRule("rule_8", "Artroplastia", "artroplastia", TRUE,
                 <<Drug("CEFAZOLINA", PerKg(30, "MG"))>>,
                 <<Drug("VANCOMICINA", PerKg(15, "MG")),
                   Drug("CEFUROXIMA", PerKg(1, "G"))>>, <<>>)

CustomConfig ==
    [ dose_tolerance_percent       |-> 20,
      hard_dose_tolerance_percent  |-> 50,
      alert_dose_tolerance_percent |-> 5 ]

PerKgDetected == {<<>>, <<"CEFAZOLINA">>, <<"VANCOMICINA">>, <<"CEFUROXIMA">>}
PerKgWeights ==
    {None} \cup {Some(w) : w \in {-5, 0, 50, 66, 67, 100, 119, 120, 121}}
PerKgDoses ==
    {None} \cup {Some(a) : a \in {0, 900, 1500, 2000, 2010, 2301, 3000, 3600, 6100}}

\* the <<rule, record>> pairs _validate_dose is called with
DoseCases ==
    { <<rule, [SurgeryRecord EXCEPT !.atb_given = "SIM",
                                    !.atb_detected = <<rule.primary_recommendation[1].name>>,
                                    !.dose_administered_mg = Some(a)]>> :
      rule \in {RuleFlat100, RuleFlat40}, a \in (-MaxNegativeDose)..MaxDose }
    \cup
    { <<RulePerKg, [SurgeryRecord EXCEPT !.atb_given = "SIM",
                                         !.atb_detected = d,
                                         !.dose_administered_mg = a,
                                         !.patient_weight = w]>> :
      d \in PerKgDetected, a \in PerKgDoses, w \in PerKgWeights }

InitDose ==
    /\ \E case \in DoseCases, config_arg \in {None, Some(CustomConfig)} :
           /\ __init__(<<case[1]>>, config_arg, <<>>)
           /\ result = Some(Outcome(<<"INDETERMINADO", "">>, AuditResult(case[2])))
    /\ pc = "dose"

\* a call of _validate_dose(record, rule, result) with the one rule of the repository
ValidateDose ==
    /\ pc = "dose"
    /\ LET res == Val(result).result
       IN  result' = Some(_validate_dose(res.surgery_record, Some(rules_repo.rules[1]),
                                         res, config))
    /\ pc' = "dose_done"
    /\ UNCHANGED <<rules_repo, config, procedure_translation_map, surgery_records,
                   audit_results>>

NextDose == ValidateDose

SpecDose == InitDose /\ [][NextDose]_vars

\* the record and the rule of the call, and the drug the dose is compared with:
\* the detected drug when the rule recommends it, the first recommended drug
\* otherwise
DoseRecord == Res.surgery_record
DoseRule == rules_repo.rules[1]
DoseReference ==
    LET drugs == DoseRule.primary_recommendation \o DoseRule.allergy_recommendation
        det == DoseRecord.atb_detected
        named == {i \in 1..Len(drugs) : det # <<>> /\ drugs[i].name = det[1]}
    IN  IF named # {} THEN drugs[CHOOSE i \in named : TRUE] ELSE drugs[1]

\* the expected dose in mg of a weight-based reference at weight w
CappedDose(drug, w) ==
    LET per_kg == IF drug.dose.unit = "G" THEN 1000 * drug.dose.coef ELSE drug.dose.coef
        raw == per_kg * w
    IN  CASE drug.name = "CEFAZOLINA" /\ w >= 120 /\ raw > 3000 -> 3000
          [] drug.name = "CEFAZOLINA" /\ w < 120 /\ raw > 2000 -> 2000
          [] OTHER -> raw

\* the expected dose E of the call, in mg
ExpectedDose ==
    IF DoseReference.dose.kind = "perkg"
    THEN CappedDose(DoseReference, Val(DoseRecord.patient_weight))
    ELSE DoseReference.dose.parts[1].n

\* C9: with the default tolerances 10/15/100, a positive expected dose E and a
\* reported administered dose A, p = (A - E) / E * 100: |p| <= 10 gives
\* CONFORME(dose_correta), 10 < |p| <= 15 ALERTA(dose_pequena_diferenca),
\* 15 < |p| <= 100 ALERTA(dose_fora_referencia), |p| > 100 NAO_CONFORME with
\* dose_muito_baixa if p < -15 and dose_muito_alta otherwise.
C9_DoseBands ==
    (/\ pc = "dose_done"
     /\ config = AUDIT_CONFIG
     /\ DoseReference.dose.kind = "flat"
     /\ TruthyNum(DoseRecord.dose_administered_mg))
        => LET A == Val(DoseRecord.dose_administered_mg)
               E == ExpectedDose
               abs_p_E == 100 * (IF A >= E THEN A - E ELSE E - A)     \* |p| * E
               out == <<Val(result).status, Val(result).razao>>
           IN  /\ IsNone(Val(result).error)
               /\ abs_p_E <= 10 * E => out = <<"CONFORME", "dose_correta">>
               /\ (10 * E < abs_p_E /\ abs_p_E <= 15 * E)
                      => out = <<"ALERTA", "dose_pequena_diferenca">>
               /\ (15 * E < abs_p_E /\ abs_p_E <= 100 * E)
                      => out = <<"ALERTA", "dose_fora_referencia">>
               /\ (abs_p_E > 100 * E /\ 100 * (A - E) < -15 * E)
                      => out = <<"NAO_CONFORME", "dose_muito_baixa">>
               /\ (abs_p_E > 100 * E /\ 100 * (A - E) >= -15 * E)
                      => out = <<"NAO_CONFORME", "dose_muito_alta">>

\* a dose exactly 100% above the expected one is still an alert
C9_Witness ==
    /\ pc = "dose_done"
    /\ config = AUDIT_CONFIG
    /\ DoseReference.dose.kind = "flat"
    /\ DoseRecord.dose_administered_mg = Some(2 * ExpectedDose)
    /\ Val(result).status = "ALERTA"
    /\ Val(result).razao = "dose_fora_referencia"

\* C10: for a weight-based reference dose, a missing or non-positive weight
\* gives INDETERMINADO(dose_sem_referencia_peso); otherwise the expected dose is
\* coefficient times weight, for CEFAZOLINA capped at 2000 mg, or at 3000 mg
\* from 120 kg on, and the bands are applied to the difference with it.
C10_WeightBasedDose ==
    (pc = "dose_done" /\ DoseReference.dose.kind = "perkg")
        => LET w == DoseRecord.patient_weight
               a == DoseRecord.dose_administered_mg
           IN  IF IsNone(w) \/ Val(w) <= 0
               THEN /\ Val(result).status = "INDETERMINADO"
                    /\ Val(result).razao = "dose_sem_referencia_peso"
               ELSE TruthyNum(a)
                        => /\ Res.dose_diferenca_mg = Some(Val(a) - ExpectedDose)
                           /\ <<Val(result).status, Val(result).razao>>
                                  = DoseBand(Rat(100 * (Val(a) - ExpectedDose),
                                                 ExpectedDose), config)

\* 30 mg/kg of CEFAZOLINA at 120 kg: 3600 mg capped at 3000 mg
C10_Witness ==
    /\ pc = "dose_done"
    /\ DoseReference.name = "CEFAZOLINA"
    /\ DoseReference.dose.kind = "perkg"
    /\ DoseRecord.patient_weight = Some(120)
    /\ DoseRecord.dose_administered_mg = Some(3000)
    /\ Res.dose_diferenca_mg = Some(0)
    /\ Val(result).status = "CONFORME"

----------------------------------------------------------------------------
(* Properties of audit_surgery and audit_all_surgeries *)

\* the call of audit_surgery in `result`: its record, and the rule the procedure
\* of the record matches, if any
Call == Val(result)
CallMatch ==
    _match_with_protocol(rules_repo, config, procedure_translation_map,
                         Call.record.procedure)

\* the rule names a drug in its primary or allergy recommendation
NamesADrug(rule) ==
    \/ \E i \in DOMAIN rule.primary_recommendation : rule.primary_recommendation[i].name # ""
    \/ \E i \in DOMAIN rule.allergy_recommendation : rule.allergy_recommendation[i].name # ""

\* C3: for a record with atb_given = SIM whose procedure matches no rule,
\* audit_surgery returns final ALERTA with reason sem_match_protocolo, whatever
\* the drug, dose, time and weight fields hold.
C3_UnmatchedWithAntibiotic ==
    (pc = "audit_surgery" /\ Call.record.atb_given = "SIM" /\ IsNone(CallMatch.rule))
        => /\ IsNone(Call.error)
           /\ Res.surgery_record = Call.record
           /\ Res.conf_final = "ALERTA"
           /\ Res.conf_final_razao = "sem_match_protocolo"

\* no rule matched, the antibiotic was given after the incision
C3_Witness ==
    /\ pc = "audit_surgery"
    /\ IsNone(Call.error)
    /\ Call.record.atb_given = "SIM"
    /\ Call.record.procedure = "Procedimento desconhecido"
    /\ rules_repo.rules # <<>>
    /\ IsNone(Res.matched_rule_id)
    /\ Res.conf_timing = "NAO_CONFORME"
    /\ Res.conf_final = "ALERTA"

\* C4: for a record with atb_given other than SIM, the choice is
\* NAO_CONFORME(atb_nao_administrado) when a rule matched and requires
\* prophylaxis (by its flag or by naming a drug), CONFORME otherwise, with reason
\* sem_match_sem_atb when no rule matched; dose, timing and redosing are
\* CONFORME(criterio_nao_aplicavel); the final status is NAO_CONFORME in the
\* first case and CONFORME in the others.
C4_AntibioticNotGiven ==
    (pc = "audit_surgery" /\ Call.record.atb_given # "SIM")
        => LET rule == CallMatch.rule
               required == /\ ~IsNone(rule)
                           /\ Val(rule).is_prophylaxis_required \/ NamesADrug(Val(rule))
           IN  /\ IsNone(Call.error)
               /\ required => /\ Res.conf_escolha = "NAO_CONFORME"
                              /\ Res.conf_escolha_razao = "atb_nao_administrado"
                              /\ Res.conf_final = "NAO_CONFORME"
               /\ ~required => /\ Res.conf_escolha = "CONFORME"
                               /\ Res.conf_final = "CONFORME"
               /\ IsNone(rule) => Res.conf_escolha_razao = "sem_match_sem_atb"
               /\ \A pair \in { <<Res.conf_dose, Res.conf_dose_razao>>,
                                <<Res.conf_timing, Res.conf_timing_razao>>,
                                <<Res.conf_repique, Res.conf_repique_razao>> } :
                      pair = <<"CONFORME", "criterio_nao_aplicavel">>

\* a matched rule that names a drug without setting its flag
C4_Witness ==
    /\ pc = "audit_surgery"
    /\ IsNone(Call.error)
    /\ Call.record.atb_given = "NAO"
    /\ Res.matched_rule_id = Some("rule_1")
    /\ ~Res.protocolo_requer_profilaxia
    /\ Res.conf_escolha_razao = "atb_nao_administrado"
    /\ Res.conf_final = "NAO_CONFORME"

\* C6: after audit_all_surgeries, audit_results holds one result per loaded
\* record and the i-th result refers to the i-th record, whether or not an
\* audit raised.
C6_OneResultPerRecord ==
    pc = "audited"
        => /\ Len(audit_results) = Len(surgery_records)
           /\ \A i \in 1..Len(surgery_records) :
                  audit_results[i].surgery_record = surgery_records[i]

\* what audit_surgery does with the i-th loaded record
AuditOf(i) ==
    audit_surgery(rules_repo, config, procedure_translation_map, surgery_records[i])

\* a batch of two whose second audit raised
C6_Witness ==
    /\ pc = "audited"
    /\ Len(surgery_records) = 2
    /\ Len(audit_results) = 2
    /\ IsNone(AuditOf(1).error)
    /\ ~IsNone(AuditOf(2).error)
    /\ audit_results[1].surgery_record.row_index = 0
    /\ audit_results[2].surgery_record.row_index = 1

\* result i is what the loop owes record i, `step` what audit_surgery did with it
ResultOwed(i, step) ==
    /\ i \in DOMAIN audit_results
    /\ IF IsNone(step.error)
       THEN audit_results[i] = step.result
       ELSE /\ audit_results[i].conf_final = "INDETERMINADO"
            /\ audit_results[i].conf_final_razao = "Erro na auditoria: " \o Val(step.error)

Raising(step) == ~IsNone(step.error)

\* C7: when audit_surgery raises for a record, audit_all_surgeries appends for it
\* a result with final status INDETERMINADO whose reason carries the error
\* description, and audits every remaining record.
C7_ErrorIsolated ==
    pc = "audited"
        => \A i \in 1..Len(surgery_records) :
               Raising(AuditOf(i))
                   => \A j \in i..Len(surgery_records) : ResultOwed(j, AuditOf(j))

\* a batch of two whose first audit raised and whose second was carried out
C7_Witness ==
    /\ pc = "audited"
    /\ Len(surgery_records) = 2
    /\ ~IsNone(AuditOf(1).error)
    /\ IsNone(AuditOf(2).error)
    /\ audit_results[1].conf_final = "INDETERMINADO"
    /\ audit_results[2].conf_final = "ALERTA"

\* the thresholds of a configuration are in range
ValidConfig(cfg) ==
    /\ RatLe(Zero, Get(cfg, "match_threshold", Zero))
    /\ RatLe(Get(cfg, "match_threshold", Zero), One)
    /\ Get(cfg, "dose_tolerance_percent", 0) >= 0
    /\ Get(cfg, "hard_dose_tolerance_percent", 0) >= 0
    /\ Get(cfg, "alert_dose_tolerance_percent", 0) >= 0

\* C8: an auditor is never constructed with an invalid threshold, so no
\* AuditResult is produced under an invalid configuration.
C8_ConfigFailFast ==
    ~ValidConfig(config) => (IsNone(result) /\ audit_results = <<>>)

----------------------------------------------------------------------------
(* The timing criterion on a range of times *)

\* values of incision_time and atb_time: missing, empty, not a time, times
TimingTimes ==
    {None} \cup {Some(t) : t \in {"", "ab:cd", "0730", "00:10", "06:29", "06:30", "07:00",
                                  "07:29", "07:30", "07:31", "08:30", "19:00", "23:50"}}

\* a configuration with a 30-minute window, and one without the key
ShortWindowConfig == [timing_window_minutes |-> 30]
TimingConfigArgs == {None, Some(ShortWindowConfig), Some(CustomConfig)}

InitTiming ==
    /\ \E g \in {"SIM", "NAO", ""}, it \in TimingTimes, at \in TimingTimes,
          config_arg \in TimingConfigArgs :
           /\ __init__(<<>>, config_arg, <<>>)
           /\ result = Some(Outcome(<<"INDETERMINADO", "">>,
                                    AuditResult([SurgeryRecord EXCEPT !.atb_given = g,
                                                                      !.incision_time = it,
                                                                      !.atb_time = at])))
    /\ pc = "timing"

\* audit_surgery, step 4, on the result of the first three steps
ValidateTiming ==
    /\ pc = "timing"
    /\ result' = Some(TimingStep(Val(result).result, Val(result).result.surgery_record,
                                 config))
    /\ pc' = "timing_done"
    /\ UNCHANGED <<rules_repo, config, procedure_translation_map, surgery_records,
                   audit_results>>

NextTiming == ValidateTiming

SpecTiming == InitTiming /\ [][NextTiming]_vars

\* t is a time of day written HH:MM
IsHHMM(t) ==
    /\ Len(t) = 5
    /\ CharAt(t, 3) = ":"
    /\ {CharAt(t, 1), CharAt(t, 2), CharAt(t, 4), CharAt(t, 5)} \subseteq DigitChars
    /\ 10 * DigitOf[CharAt(t, 1)] + DigitOf[CharAt(t, 2)] <= 23
    /\ 10 * DigitOf[CharAt(t, 4)] + DigitOf[CharAt(t, 5)] <= 59

\* minutes since midnight of a time written HH:MM
MinuteOfDay(t) ==
    600 * DigitOf[CharAt(t, 1)] + 60 * DigitOf[CharAt(t, 2)]
        + 10 * DigitOf[CharAt(t, 4)] + DigitOf[CharAt(t, 5)]

\* minutes from t1 to t2, taken in the shorter direction around midnight
MinutesFromTo(t1, t2) ==
    LET raw == MinuteOfDay(t2) - MinuteOfDay(t1)
    IN  CASE raw < -720 -> raw + 1440
          [] raw > 720 -> raw - 1440
          [] OTHER -> raw

\* the status and reason an operation handed back
Handed == <<Val(result).status, Val(result).razao>>

\* C11: timing is CONFORME when the antibiotic was not given; INDETERMINADO when
\* it was given and the incision or administration time is missing; otherwise,
\* d the minutes from administration to incision, d < 0 is
\* NAO_CONFORME(timing_apos_incisao), 0 <= d <= timing_window_minutes (default
\* 60) is CONFORME(timing_correto), d > window is NAO_CONFORME(timing_fora_janela).
C11_TimingCriterion ==
    pc = "timing_done"
        => LET record == Res.surgery_record
               window == IF "timing_window_minutes" \in DOMAIN config
                         THEN config.timing_window_minutes ELSE 60
               missing(t) == t = None \/ t = Some("")
           IN  IF record.atb_given # "SIM"
               THEN Val(result).status = "CONFORME"
               ELSE IF missing(record.incision_time) \/ missing(record.atb_time)
               THEN Val(result).status = "INDETERMINADO"
               ELSE (IsHHMM(Val(record.atb_time)) /\ IsHHMM(Val(record.incision_time)))
                    => LET d == MinutesFromTo(Val(record.atb_time),
                                              Val(record.incision_time))
                       IN  /\ d < 0 => Handed = <<"NAO_CONFORME", "timing_apos_incisao">>
                           /\ (0 <= d /\ d <= window)
                                  => Handed = <<"CONFORME", "timing_correto">>
                           /\ d > window
                                  => Handed = <<"NAO_CONFORME", "timing_fora_janela">>

\* given exactly 60 minutes before the incision, default window
C11_Witness ==
    /\ pc = "timing_done"
    /\ config = AUDIT_CONFIG
    /\ Res.surgery_record.atb_given = "SIM"
    /\ Res.surgery_record.atb_time = Some("06:30")
    /\ Res.surgery_record.incision_time = Some("07:30")
    /\ Res.timing_diferenca_minutos = Some(60)
    /\ Handed = <<"CONFORME", "timing_correto">>

----------------------------------------------------------------------------
(* calculate_time_diff_minutes on pairs of arguments *)

\* times of day, written HH:MM
ValidTimes ==
    {"00:00", "00:10", "00:59", "01:00", "07:30", "11:50", "11:59", "12:00", "12:01",
     "12:10", "13:15", "19:30", "23:00", "23:50", "23:59"}

\* texts that are not a time of day written HH:MM
MalformedTimes ==
    {"", "0800", "ab:cd", "12:", ":30", "8:5", " 7:30", "-1:30", "07:30:15", "25:00",
     "12:75", "24:00"}

\* the arguments of a call: no value, or a text
TimeArgs == {None} \cup {Some(t) : t \in ValidTimes \cup MalformedTimes}

\* calculate_time_diff_minutes on arguments that may be None: None has no
\* split, the AttributeError ends in the except clause
TimeDiffOfArgs(time1, time2) ==
    IF IsNone(time1) \/ IsNone(time2) THEN None
    ELSE calculate_time_diff_minutes(Val(time1), Val(time2))

InitTimeDiff ==
    /\ __init__(<<>>, None, <<>>)
    /\ \E time1 \in TimeArgs, time2 \in TimeArgs :
           result = Some([time1 |-> time1, time2 |-> time2, diff |-> None])
    /\ pc = "time_args"

CalculateTimeDiff ==
    /\ pc = "time_args"
    /\ result' = Some([Val(result) EXCEPT
                           !.diff = TimeDiffOfArgs(Val(result).time1, Val(result).time2)])
    /\ pc' = "time_diff"
    /\ UNCHANGED <<rules_repo, config, procedure_translation_map, surgery_records,
                   audit_results>>

NextTimeDiff == CalculateTimeDiff

SpecTimeDiff == InitTimeDiff /\ [][NextTimeDiff]_vars

\* an argument that is a time of day written HH:MM
IsTimeArg(a) == ~IsNone(a) /\ IsHHMM(Val(a))

\* for two times of day the result is t2 - t1, plus 1440 below -720, minus
\* 1440 above 720, and lies in -720..720
TimeDiffOfValidPairs ==
    (pc = "time_diff" /\ IsTimeArg(Val(result).time1) /\ IsTimeArg(Val(result).time2))
        => /\ Val(result).diff = Some(MinutesFromTo(Val(Val(result).time1),
                                                    Val(Val(result).time2)))
           /\ Val(Val(result).diff) \in (-720)..720

\* C12: for two valid HH:MM times calculate_time_diff_minutes returns t2 - t1,
\* plus 1440 when that is below -720 and minus 1440 when it is above 720, so
\* the result lies in -720..720; a malformed or missing input gives None, never
\* a number.
C12_TimeDiff ==
    pc = "time_diff"
        => IF IsTimeArg(Val(result).time1) /\ IsTimeArg(Val(result).time2)
           THEN /\ Val(result).diff = Some(MinutesFromTo(Val(Val(result).time1),
                                                         Val(Val(result).time2)))
                /\ Val(Val(result).diff) \in (-720)..720
           ELSE Val(result).diff = None

\* 23:50 to 00:10 is 20 minutes
MidnightCrossed ==
    /\ pc = "time_diff"
    /\ Val(result).time1 = Some("23:50")
    /\ Val(result).time2 = Some("00:10")
    /\ Val(result).diff = Some(20)

\* an hour of 25 is taken for a time, and the difference comes out 0
OutOfRangeAsZero ==
    /\ pc = "time_diff"
    /\ Val(result).time1 = Some("25:00")
    /\ Val(result).time2 = Some("01:00")
    /\ Val(result).diff = Some(0)

----------------------------------------------------------------------------
(* The redosing criterion on a range of records *)

RedosingDetected ==
    {<<>>, <<"CEFAZOLINA">>, <<"CEFOXITINA">>, <<"CEFTRIAXONE">>,
     <<"VANCOMICINA", "CLINDAMICINA">>}

\* protocolo_atb_recomendados as the matching step left it
RedosingRecommended == {<<>>, <<"">>, <<"CLINDAMICINA", "CEFAZOLINA">>}

RedosingAtbTimes == {None} \cup {Some(t) : t \in {"ab:cd", "08:00", "22:00"}}

RedosingTimes ==
    {None} \cup {Some(t) : t \in {"", "02:10", "09:29", "09:30", "10:30", "10:31", "11:29",
                                  "11:30", "12:10", "12:30", "12:31", "13:00", "14:00"}}

InitRedosing ==
    /\ __init__(<<>>, None, <<>>)
    /\ \E g \in {"SIM", "NAO"}, done \in {"SIM", "NAO", ""}, detected \in RedosingDetected,
          recommended \in RedosingRecommended, at \in RedosingAtbTimes,
          rt \in RedosingTimes :
           result = Some(Outcome(<<"INDETERMINADO", "">>,
                                 [AuditResult([SurgeryRecord EXCEPT
                                                   !.atb_given = g,
                                                   !.repique_done = done,
                                                   !.atb_detected = detected,
                                                   !.atb_time = at,
                                                   !.repique_time = rt])
                                      EXCEPT !.protocolo_atb_recomendados = recommended]))
    /\ pc = "redosing"

\* audit_surgery, step 5, on the result of the first four steps
ValidateRedosing ==
    /\ pc = "redosing"
    /\ result' = Some(RedosingStep(Val(result).result, Val(result).result.surgery_record))
    /\ pc' = "redosing_done"
    /\ UNCHANGED <<rules_repo, config, procedure_translation_map, surgery_records,
                   audit_results>>

NextRedosing == ValidateRedosing

SpecRedosing == InitRedosing /\ [][NextRedosing]_vars

\* the drug the redosing criterion is about: the first detected, else the first
\* recommended, "" when there is none
RelevantDrug ==
    LET record == Res.surgery_record
    IN  IF record.atb_detected # <<>> THEN record.atb_detected[1]
        ELSE IF Res.protocolo_atb_recomendados # <<>>
        THEN Res.protocolo_atb_recomendados[1]
        ELSE ""

\* the configured interval of a drug, 0 when it has none
IntervalOf(drug) ==
    IF drug \in DOMAIN REDOSING_INTERVALS THEN REDOSING_INTERVALS[drug] ELSE 0

\* the redosing criterion as the claim states it, for the record of the result
RedosingLaw ==
    LET record == Res.surgery_record
        missing(t) == t = None \/ t = Some("")
    IN  IF record.repique_done # "SIM"
        THEN Handed = <<"CONFORME", "repique_nao_aplicavel">>
        ELSE IF RelevantDrug = ""
        THEN Handed = <<"INDETERMINADO", "atb_nao_identificado">>
        ELSE IF IntervalOf(RelevantDrug) = 0
        THEN Handed = <<"CONFORME", "repique_nao_aplicavel">>
        ELSE IF missing(record.atb_time) \/ missing(record.repique_time)
        THEN Handed = <<"INDETERMINADO", "repique_horarios_nao_informados">>
        ELSE (IsHHMM(Val(record.atb_time)) /\ IsHHMM(Val(record.repique_time)))
             => LET m == MinutesFromTo(Val(record.atb_time), Val(record.repique_time))
                    interval == IntervalOf(RelevantDrug)
                IN  IF interval - 30 <= m /\ m <= interval + 30
                    THEN Handed = <<"CONFORME", "repique_no_intervalo">>
                    ELSE Handed = <<"NAO_CONFORME", "repique_fora_intervalo">>

\* C13: for every record the redosing criterion is: not performed,
\* CONFORME(repique_nao_aplicavel); performed, the relevant drug is the detected
\* one, else the first recommended one, none giving
\* INDETERMINADO(atb_nao_identificado); no interval or interval 0,
\* CONFORME(repique_nao_aplicavel); a missing administration or redose time,
\* INDETERMINADO(repique_horarios_nao_informados); otherwise m within
\* interval-30..interval+30 is CONFORME(repique_no_intervalo) and any other m
\* is NAO_CONFORME(repique_fora_intervalo).
C13_RedosingEveryRecord == pc = "redosing_done" => RedosingLaw

\* C13, amended: the same for every record whose antibiotic was given; when it
\* was not given the redosing status is CONFORME(criterio_nao_aplicavel).
C13_RedosingWhenGiven ==
    pc = "redosing_done"
        => IF Res.surgery_record.atb_given = "SIM" THEN RedosingLaw
           ELSE Handed = <<"CONFORME", "criterio_nao_aplicavel">>

\* CEFAZOLINA, interval 240, given at 08:00 and redosed at 12:30: m = 270
C13_Witness ==
    /\ pc = "redosing_done"
    /\ Res.surgery_record.atb_given = "SIM"
    /\ Res.surgery_record.repique_done = "SIM"
    /\ RelevantDrug = "CEFAZOLINA"
    /\ Res.surgery_record.atb_time = Some("08:00")
    /\ Res.surgery_record.repique_time = Some("12:30")
    /\ Res.repique_diferenca_minutos = Some(270)
    /\ Handed = <<"CONFORME", "repique_no_intervalo">>

----------------------------------------------------------------------------
(* The choice criterion on a range of records and rules *)

\* a rule with its flag unset whose only drug is the allergy alternative
RuleAllergyOnly ==
    ProtocolRule("rule_9", "Tireoidectomia", "tireoidectomia", FALSE,
                 <<>>, <<Drug("CLINDAMICINA", Flat(<<Amount(600, "MG")>>))>>, <<>>)

\* the rule audit_surgery matched, if any
MatchedRules ==
    {None} \cup {Some(rule) : rule \in {RuleCesariana, RuleHernia, RuleBiopsia, RuleLimpa,
                                        RuleAllergyOnly}}

ChoiceDetected ==
    {<<>>, <<"CEFAZOLINA">>, <<"CEFTRIAXONE">>, <<"CLINDAMICINA">>,
     <<"VANCOMICINA", "CLINDAMICINA">>, <<"CEFTRIAXONE", "VANCOMICINA">>}

InitChoice ==
    /\ __init__(<<>>, None, <<>>)
    /\ \E g \in {"SIM", "NAO", ""}, detected \in ChoiceDetected, rule \in MatchedRules :
           result = Some([rule   |-> rule,
                          result |-> AuditResult([SurgeryRecord EXCEPT
                                                      !.atb_given = g,
                                                      !.atb_detected = detected])])
    /\ pc = "choice"

\* audit_surgery, step 2, with the rule step 1 matched
ValidateChoice ==
    /\ pc = "choice"
    /\ result' = Some([Val(result) EXCEPT
                           !.result = ChoiceStep(@, @.surgery_record, Val(result).rule)])
    /\ pc' = "choice_done"
    /\ UNCHANGED <<rules_repo, config, procedure_translation_map, surgery_records,
                   audit_results>>

NextChoice == ValidateChoice

SpecChoice == InitChoice /\ [][NextChoice]_vars

\* the names in the primary and allergy recommendations of a rule
RecommendedNames(rule) ==
    ({rule.primary_recommendation[i].name : i \in DOMAIN rule.primary_recommendation}
        \cup {rule.allergy_recommendation[i].name : i \in DOMAIN rule.allergy_recommendation})
        \ {""}

\* some detected drug of the record is one of the names
DetectedAmong(record, names) ==
    \E i \in DOMAIN record.atb_detected : record.atb_detected[i] \in names

\* the choice was validated for a record with the antibiotic given and a rule
\* matched
GivenAndMatched ==
    /\ pc = "choice_done"
    /\ Res.surgery_record.atb_given = "SIM"
    /\ ~IsNone(Val(result).rule)

MatchedRule == Val(Val(result).rule)

\* the status and reason of the choice criterion
Choice == <<Res.conf_escolha, Res.conf_escolha_razao>>

\* C14: when the antibiotic was given and the matched rule names at least one
\* recommended drug, the choice is CONFORME(atb_recomendado) if and only if some
\* detected drug is the name of a drug in the rule's primary or allergy
\* recommendation, whatever the rule's is_prophylaxis_required flag.
C14_RecommendedDrugConforms ==
    (GivenAndMatched /\ NamesADrug(MatchedRule))
        => (Choice = <<"CONFORME", "atb_recomendado">>
                <=> DetectedAmong(Res.surgery_record, RecommendedNames(MatchedRule)))

\* the flag is false and the second detected drug is the allergy alternative
C14_Witness ==
    /\ GivenAndMatched
    /\ MatchedRule = RuleAllergyOnly
    /\ ~MatchedRule.is_prophylaxis_required
    /\ Res.surgery_record.atb_detected = <<"VANCOMICINA", "CLINDAMICINA">>
    /\ Choice = <<"CONFORME", "atb_recomendado">>

\* a drug was detected and none of the detected drugs is recommended by the rule
NoneRecommended ==
    /\ GivenAndMatched
    /\ Res.surgery_record.atb_detected # <<>>
    /\ ~DetectedAmong(Res.surgery_record, RecommendedNames(MatchedRule))

\* C15: when the antibiotic was given, a rule matched, a drug was detected and
\* none of the detected drugs is recommended by the rule, the choice is ALERTA
\* if the rule's prophylaxis-required flag is false and
\* NAO_CONFORME(atb_nao_recomendado) if it is true.
C15_AlertByFlag ==
    NoneRecommended
        => IF ~MatchedRule.is_prophylaxis_required
           THEN Res.conf_escolha = "ALERTA"
           ELSE Choice = <<"NAO_CONFORME", "atb_nao_recomendado">>

\* C15, amended: in that case the choice is NAO_CONFORME(atb_nao_recomendado)
\* when the rule names a recommended drug, whatever its flag; when it names
\* none, ALERTA(profilaxia_potencial_sem_indicacao) if the flag is false and
\* INDETERMINADO(atb_sem_referencia_protocolo) if it is true.
C15_NonConformByNamedDrug ==
    NoneRecommended
        => Choice = IF NamesADrug(MatchedRule)
                    THEN <<"NAO_CONFORME", "atb_nao_recomendado">>
                    ELSE IF ~MatchedRule.is_prophylaxis_required
                    THEN <<"ALERTA", "profilaxia_potencial_sem_indicacao">>
                    ELSE <<"INDETERMINADO", "atb_sem_referencia_protocolo">>

\* the flag is false, the rule names CEFAZOLINA, CEFTRIAXONE was given
C15_Witness ==
    /\ NoneRecommended
    /\ MatchedRule = RuleCesariana
    /\ ~MatchedRule.is_prophylaxis_required
    /\ Res.surgery_record.atb_detected = <<"CEFTRIAXONE">>
    /\ Choice = <<"NAO_CONFORME", "atb_nao_recomendado">>

----------------------------------------------------------------------------
(* The reason of a final NAO_CONFORME *)

\* the four criteria of the result, in the order choice, dose, timing, redosing
Criteria ==
    << <<Res.conf_escolha, Res.conf_escolha_razao>>,
       <<Res.conf_dose, Res.conf_dose_razao>>,
       <<Res.conf_timing, Res.conf_timing_razao>>,
       <<Res.conf_repique, Res.conf_repique_razao>> >>

IsNonConform(criterion) == criterion[1] = "NAO_CONFORME"

\* one to four reasons, separated by a comma and a blank
CommaJoined(pairs) ==
    CASE Len(pairs) = 1 -> pairs[1][2]
      [] Len(pairs) = 2 -> pairs[1][2] \o ", " \o pairs[2][2]
      [] Len(pairs) = 3 -> pairs[1][2] \o ", " \o pairs[2][2] \o ", " \o pairs[3][2]
      [] Len(pairs) = 4 -> pairs[1][2] \o ", " \o pairs[2][2] \o ", " \o pairs[3][2]
                               \o ", " \o pairs[4][2]

\* C16: whenever the final status is NAO_CONFORME, the final reason is the
\* reasons of exactly the criteria whose status is NAO_CONFORME, joined by
\* commas in the order choice, dose, timing, redosing.
C16_FinalReasonJoined ==
    (pc = "final" /\ Res.conf_final = "NAO_CONFORME")
        => /\ SelectSeq(Criteria, IsNonConform) # <<>>
           /\ Res.conf_final_razao = CommaJoined(SelectSeq(Criteria, IsNonConform))

\* choice, dose and redosing are NAO_CONFORME, timing is not
C16_Witness ==
    /\ pc = "final"
    /\ Res.conf_escolha = "NAO_CONFORME"
    /\ Res.conf_dose = "NAO_CONFORME"
    /\ Res.conf_timing = "ALERTA"
    /\ Res.conf_repique = "NAO_CONFORME"
    /\ Res.conf_final = "NAO_CONFORME"
    /\ Res.conf_final_razao = "atb_sem_referencia_protocolo, razao_dose, razao_repique"

----------------------------------------------------------------------------
(* The numeric deltas of a result *)

\* a delta is set only beside a status other than INDETERMINADO
DeltasBesideStatus(res) ==
    /\ (res.dose_diferenca_mg # None \/ res.dose_diferenca_pct # None)
           => res.conf_dose # "INDETERMINADO"
    /\ res.timing_diferenca_minutos # None => res.conf_timing # "INDETERMINADO"
    /\ res.repique_diferenca_minutos # None => res.conf_repique # "INDETERMINADO"

\* a text field without a value: None or the empty text
NoText(t) == t = None \/ t = Some("")
\* a number field without a value: None or 0
NoNumber(n) == n = None \/ n = Some(0)

\* the reference of the dose is given per kg of weight
WeightBasedReference(record, rule) ==
    /\ ~IsNone(_select_reference_drug(record, rule))
    /\ Val(_select_reference_drug(record, rule)).dose.kind = "perkg"

\* no delta is set when an input of it is missing
DeltasNeedInputs(res, record, rule) ==
    /\ NoNumber(record.dose_administered_mg)
           => res.dose_diferenca_mg = None /\ res.dose_diferenca_pct = None
    /\ (NoNumber(record.patient_weight) /\ WeightBasedReference(record, rule))
           => res.dose_diferenca_mg = None /\ res.dose_diferenca_pct = None
    /\ (NoText(record.atb_time) \/ NoText(record.incision_time))
           => res.timing_diferenca_minutos = None
    /\ (NoText(record.atb_time) \/ NoText(record.repique_time))
           => res.repique_diferenca_minutos = None

\* C17: in every result audit_surgery returns, dose_diferenca_mg and
\* dose_diferenca_pct are set only if the dose status is not INDETERMINADO,
\* timing_diferenca_minutos only if the timing status is not INDETERMINADO,
\* repique_diferenca_minutos only if the redosing status is not INDETERMINADO,
\* and no delta is set when the dose, the weight or a time it depends on is
\* missing.
C17_DeltasFromRealData ==
    /\ (pc = "audit_surgery" /\ IsNone(Call.error))
           => /\ DeltasBesideStatus(Res)
              /\ DeltasNeedInputs(Res, Call.record, CallMatch.rule)
    /\ pc = "audited"
           => \A i \in DOMAIN audit_results : DeltasBesideStatus(audit_results[i])

\* the dose and the redosing deltas are set, the incision time is missing
C17_Witness ==
    /\ pc = "audit_surgery"
    /\ IsNone(Call.error)
    /\ Call.record.incision_time = None
    /\ Res.conf_timing = "INDETERMINADO"
    /\ Res.timing_diferenca_minutos = None
    /\ Res.dose_diferenca_mg # None
    /\ Res.conf_dose # "INDETERMINADO"
    /\ Res.repique_diferenca_minutos # None

\* the weight is missing for a reference per kg, the dose was reported
NoWeightNoDelta ==
    /\ pc = "audit_surgery"
    /\ IsNone(Call.error)
    /\ Call.record.patient_weight = None
    /\ Call.record.dose_administered_mg # None
    /\ Res.conf_dose_razao = "dose_sem_referencia_peso"
    /\ Res.dose_diferenca_mg = None

----------------------------------------------------------------------------
(* The match score of a result *)

\* the score is 0 exactly when no rule is associated; the score of an
\* associated rule is above 0, at most 1 and at least the configured threshold
MatchScoreLaw(res, cfg) ==
    /\ RatEq(res.match_score, Zero) <=> IsNone(res.matched_rule_id)
    /\ ~IsNone(res.matched_rule_id)
           => /\ RatLt(Zero, res.match_score)
              /\ RatLe(res.match_score, One)
              /\ RatLe(Get(cfg, "match_threshold", Rat(70, 100)), res.match_score)

\* C18: in every AuditResult, match_score is 0 exactly when matched_rule_id is
\* None, and a result with a matched rule has a match_score above 0, at most 1
\* and at least the configured match_threshold.
C18_MatchScore ==
    /\ (pc = "audit_surgery" /\ IsNone(Call.error)) => MatchScoreLaw(Res, config)
    /\ pc = "audited" => \A i \in DOMAIN audit_results : MatchScoreLaw(audit_results[i], config)

\* the same under a configuration whose thresholds are in range
MatchScoreUnderValidConfig == ValidConfig(config) => C18_MatchScore

\* an exact match under a threshold of 1.5
MatchedBelowThreshold ==
    /\ pc = "audit_surgery"
    /\ IsNone(Call.error)
    /\ config = InvalidConfig
    /\ Call.record.procedure = "Cesariana"
    /\ Res.matched_rule_id = Some("rule_1")
    /\ Res.match_method = "exact_match"
    /\ Res.match_score = One

----------------------------------------------------------------------------
(* _match_with_protocol on a range of repositories, thresholds and names *)

RuleUmbilical ==
    ProtocolRule("rule_10", "Hernia umbilical", "hernia umbilical", TRUE,
                 <<Drug("CEFAZOLINA", Flat(<<Amount(2000, "MG")>>))>>, <<>>, <<>>)
\* a second rule of the same normalized name, with a blank alias
RuleUmbilicalTwin ==
    ProtocolRule("rule_11", "Hernia Umbilical", "hernia umbilical", FALSE,
                 <<>>, <<>>, <<" ">>)

MatchRuleSets ==
    { <<>>,
      <<RuleCesariana, RuleHernia>>,
      <<RuleUmbilical, RuleHernia>>,
      <<RuleHernia, RuleUmbilical>>,
      <<RuleUmbilical, RuleUmbilicalTwin, RuleCesariana>>,
      <<RuleCesarianaNumber, RuleCesariana, RuleBiopsia>> }

\* thresholds of 0.75 and 0
ThreeQuartersConfig == [match_threshold |-> Rat(3, 4)]
ZeroThresholdConfig == [match_threshold |-> Zero]
MatchConfigArgs ==
    {None, Some(ThreeQuartersConfig), Some(ZeroThresholdConfig), Some(InvalidConfig)}

MatchProcedures ==
    {"", "Cesariana", "Cesarea", "Hernia inguinal", "Hernia umbilical", "Hernioplastia",
     "Parto cesareo", "Cirurgia de", "Procedimento desconhecido"}

InitMatch ==
    /\ \E rules \in MatchRuleSets, config_arg \in MatchConfigArgs,
          translation_arg \in TranslationArgs :
           __init__(rules, config_arg, translation_arg)
    /\ \E procedure \in MatchProcedures :
           result = Some([procedure |-> procedure, match |-> Match(None, Zero, "")])
    /\ pc = "match"

\* a call of _match_with_protocol(procedure)
MatchWithProtocol ==
    /\ pc = "match"
    /\ result' = Some([Val(result) EXCEPT
                           !.match = _match_with_protocol(rules_repo, config,
                                                          procedure_translation_map,
                                                          Val(result).procedure)])
    /\ pc' = "match_done"
    /\ UNCHANGED <<rules_repo, config, procedure_translation_map, surgery_records,
                   audit_results>>

NextMatch == MatchWithProtocol

SpecMatch == InitMatch /\ [][NextMatch]_vars

\* the translation step handed no rule for the procedure
NoRuleOf(repo, cfg, procedure, translated) ==
    \/ translated = ""
    \/ IsNone(_match_translated_procedure(repo, cfg, translated, procedure).rule)
NoTranslatedRule(procedure) ==
    NoRuleOf(rules_repo, config, procedure,
             _translate_procedure_name(procedure_translation_map, procedure))

\* the rules whose canonical normalized name is the text
ExactAt(rules, text) ==
    {i \in DOMAIN rules : text # "" /\ rules[i].procedure_normalized = text}

\* the rules one of whose aliases, normalized, is the text
AliasAt(rules, text) ==
    {i \in DOMAIN rules :
        \E k \in DOMAIN rules[i].surgery_name : normalize_text(rules[i].surgery_name[k]) = text}

\* <<i, k, score>>: the score of the text against the canonical name (k = 0) and
\* against the k-th alias of rule i, blank aliases left out
Scored(rules, text) ==
    {<<i, 0, fuzzy_match_score(text, rules[i].procedure_normalized)>> : i \in DOMAIN rules}
        \cup UNION { {<<i, k, fuzzy_match_score(text,
                                                normalize_text(rules[i].surgery_name[k]))>> :
                          k \in {k \in DOMAIN rules[i].surgery_name :
                                     Strip(rules[i].surgery_name[k]) # ""}} :
                     i \in DOMAIN rules }

\* the scored targets at or above the threshold, a score of 0 never counting
Succeeding(scored, threshold) ==
    {p \in scored : RatLt(Zero, p[3]) /\ RatLe(threshold, p[3])}

\* the highest scorers, and the one the loops meet first
Highest(succeeding) == {p \in succeeding : \A q \in succeeding : RatLe(q[3], p[3])}
FirstMet(highest) ==
    CHOOSE p \in highest :
        \A q \in highest : p[1] < q[1] \/ (p[1] = q[1] /\ p[2] <= q[2])

Least(indices) == CHOOSE i \in indices : \A k \in indices : i <= k

\* what direct matching owes for the cleaned text
DirectLaw(found, rules, text, succeeding) ==
    IF ExactAt(rules, text) # {}
    THEN found = Match(Some(rules[Least(ExactAt(rules, text))]), One, "exact_match")
    ELSE IF AliasAt(rules, text) # {}
    THEN found = Match(Some(rules[Least(AliasAt(rules, text))]), One, "alias_match")
    ELSE IF succeeding # {}
    THEN /\ found.method = "fuzzy_match"
         /\ found.rule = Some(rules[FirstMet(Highest(succeeding))[1]])
         /\ RatEq(found.score, FirstMet(Highest(succeeding))[3])
    ELSE found = Match(None, Zero, "no_match")

Threshold == Get(config, "match_threshold", Rat(70, 100))

\* C19: when the translation step yields no rule, direct matching returns the
\* first success of: a rule whose canonical normalized name equals the cleaned
\* input (score 1.0, exact_match); a rule with a normalized alias equal to it
\* (score 1.0, alias_match); the single highest scorer at or above
\* match_threshold of the fuzzy comparison with canonical names and aliases
\* (fuzzy_match); otherwise (none, 0.0, no_match).
C19_DirectMatchOrder ==
    (pc = "match_done" /\ Val(result).procedure # "" /\ NoTranslatedRule(Val(result).procedure))
        => DirectLaw(Val(result).match, rules_repo.rules,
                     clean_procedure_name(Val(result).procedure),
                     Succeeding(Scored(rules_repo.rules,
                                       clean_procedure_name(Val(result).procedure)),
                                Threshold))

\* two rules score 22/31 for "Hernia inguinal", above 0.70: the first is kept
C19_Witness ==
    /\ pc = "match_done"
    /\ Val(result).procedure = "Hernia inguinal"
    /\ rules_repo.rules = <<RuleUmbilical, RuleUmbilicalTwin, RuleCesariana>>
    /\ config = AUDIT_CONFIG
    /\ Val(result).match.method = "fuzzy_match"
    /\ Val(result).match.rule = Some(RuleUmbilical)
    /\ RatEq(Val(result).match.score, Rat(22, 31))

----------------------------------------------------------------------------
(* fuzzy_match_score on pairs of texts *)

FuzzyTexts ==
    {"", " ", "!!!", "Hernia", "hernia", "HERNIA!", "Hernia inguinal", "inguinal hernia",
     "hernia hernia", "Hernia umbilical", "Cesariana", "Cesarea", "Biopsia de pele"}

InitFuzzy ==
    /\ __init__(<<>>, None, <<>>)
    /\ \E text1 \in FuzzyTexts, text2 \in FuzzyTexts :
           result = Some([text1 |-> text1, text2 |-> text2, score |-> None])
    /\ pc = "texts"

\* a call of fuzzy_match_score(text1, text2)
FuzzyMatchScore ==
    /\ pc = "texts"
    /\ result' = Some([Val(result) EXCEPT
                           !.score = Some(fuzzy_match_score(Val(result).text1,
                                                            Val(result).text2))])
    /\ pc' = "score"
    /\ UNCHANGED <<rules_repo, config, procedure_translation_map, surgery_records,
                   audit_results>>

NextFuzzy == FuzzyMatchScore

SpecFuzzy == InitFuzzy /\ [][NextFuzzy]_vars

\* the score lies in [0, 1] and is 1 for a non-empty text and itself
ScoreInRange ==
    /\ RatLe(Zero, Val(Val(result).score))
    /\ RatLe(Val(Val(result).score), One)
    /\ (Val(result).text1 = Val(result).text2 /\ Val(result).text1 # "")
           => RatEq(Val(Val(result).score), One)

\* the words of the normalized form of a text
WordsOf(text) == SeqToSet(Split(normalize_text(text)))

\* the two texts share a word and the words of one are all words of the other
OneWithinOther(words1, words2) ==
    /\ words1 \cap words2 # {}
    /\ words1 \subseteq words2 \/ words2 \subseteq words1

\* C20: fuzzy_match_score(x, y) lies in [0, 1], is 1.0 when x and y are the same
\* non-empty text, and is 1.0 only when the normalized forms of x and y are
\* exactly equal.
C20_OneOnlyWhenEqual ==
    pc = "score"
        => /\ ScoreInRange
           /\ RatEq(Val(Val(result).score), One)
                  => normalize_text(Val(result).text1) = normalize_text(Val(result).text2)

\* what the code does: the score lies in [0, 1], is 1.0 when x and y are the
\* same non-empty text, and is 1.0 exactly when both texts are non-empty and
\* either their normalized forms are equal or they share a word and every word
\* of one is a word of the other.
ScoreOneWhenWordsContained ==
    pc = "score"
        => /\ ScoreInRange
           /\ RatEq(Val(Val(result).score), One)
                  <=> /\ Val(result).text1 # ""
                      /\ Val(result).text2 # ""
                      /\ \/ normalize_text(Val(result).text1)
                                = normalize_text(Val(result).text2)
                         \/ OneWithinOther(WordsOf(Val(result).text1),
                                           WordsOf(Val(result).text2))

\* "Hernia" against "Hernia inguinal" scores 1.0
SubsetScoresOne ==
    /\ pc = "score"
    /\ Val(result).text1 = "Hernia"
    /\ Val(result).text2 = "Hernia inguinal"
    /\ normalize_text(Val(result).text1) # normalize_text(Val(result).text2)
    /\ Val(result).score = Some(One)

----------------------------------------------------------------------------
(* extract_drug_names on a range of texts *)

Entry(standard_name, aliases) == [standard_name |-> standard_name, aliases |-> aliases]

\* entries of DRUG_DICTIONARY, in its order
DrugDictionary ==
    << Entry("CEFAZOLINA", <<"KEFAZOL", "CEFAZOLINA", "ANCEF">>),
       Entry("VANCOMICINA", <<"VANCOMICINA", "VANCOCINA">>),
       Entry("CIPROFLOXACINO", <<"CIPROFLOXACINO", "CIPRO">>),
       Entry("AMOXICILINA_CLAVULANATO", <<"CLAVULIN", "AMOXICILINA+CLAVULANATO">>),
       Entry("CLINDAMICINA", <<"CLINDAMICINA", "DALACIN">>) >>

\* a dictionary of two entries
TwoDrugs ==
    << Entry("CLINDAMICINA", <<"DALACIN", "CLINDAMICINA">>),
       Entry("CEFAZOLINA", <<"CEFAZOLINA">>) >>

\* pieces of the antibiotic column: names, brand names, misspellings, others
TextPieces ==
    {"", "Cefazolina 2g", "KEFAZOL", "Clindamicina 600mg", "Vancomicna", "Cefazolna",
     "Dipirona 1g", "Amoxicilina + clavulanato", "cipro"}

DrugTexts == {None} \cup {Some(a \o " " \o b) : a \in TextPieces, b \in TextPieces}

InitDrugs ==
    /\ __init__(<<>>, None, <<>>)
    /\ \E text \in DrugTexts, drug_dict \in {DrugDictionary, TwoDrugs} :
           result = Some([text |-> text, drug_dict |-> drug_dict, found_drugs |-> <<>>])
    /\ pc = "drug_text"

\* a call of extract_drug_names(text, drug_dict)
ExtractDrugNames ==
    /\ pc = "drug_text"
    /\ result' = Some([Val(result) EXCEPT
                           !.found_drugs = extract_drug_names(Val(result).text,
                                                              Val(result).drug_dict)])
    /\ pc' = "drug_names"
    /\ UNCHANGED <<rules_repo, config, procedure_translation_map, surgery_records,
                   audit_results>>

NextDrugs == ExtractDrugNames

SpecDrugs == InitDrugs /\ [][NextDrugs]_vars

Found == Val(result).found_drugs
Dict == Val(result).drug_dict
NormalizedText == IF IsNone(Val(result).text) THEN "" ELSE normalize_text(Val(Val(result).text))

\* the entries one of whose aliases is in the text
InText ==
    {i \in DOMAIN Dict :
        NormalizedText # ""
        /\ \E k \in DOMAIN Dict[i].aliases :
               IsSubstring(normalize_text(Dict[i].aliases[k]), NormalizedText)}

\* the first position in the text of an alias of entry i
Positions(alias, text) ==
    {p \in 1..Len(text) : p + Len(alias) - 1 <= Len(text)
                          /\ SubSeq(text, p, p + Len(alias) - 1) = alias}
FirstPosition(i) ==
    LET all == UNION {Positions(normalize_text(Dict[i].aliases[k]), NormalizedText) :
                          k \in DOMAIN Dict[i].aliases}
    IN  CHOOSE p \in all : \A q \in all : p <= q

\* the entry of the dictionary with the name
EntryOf(name) == CHOOSE i \in DOMAIN Dict : Dict[i].standard_name = name

\* canonical names, each once; the names found in the text by their aliases
\* when there are any, without any other name
EachOnce ==
    /\ \A i \in DOMAIN Found : \E e \in DOMAIN Dict : Dict[e].standard_name = Found[i]
    /\ \A i, j \in DOMAIN Found : i # j => Found[i] # Found[j]
    /\ InText # {} => SeqToSet(Found) = {Dict[i].standard_name : i \in InText}

\* C21: extract_drug_names returns canonical drug identifiers without
\* duplicates, in the order of their first occurrence in the input text, and
\* names found by the fuzzy fallback only when no alias is a substring of the
\* text.
C21_TextOrder ==
    pc = "drug_names"
        => /\ EachOnce
           /\ InText # {}
                  => \A i, j \in DOMAIN Found :
                         i < j => FirstPosition(EntryOf(Found[i]))
                                      <= FirstPosition(EntryOf(Found[j]))

\* C21, amended: the identifiers come without duplicates in the order of the
\* entries of the dictionary, whatever their order in the text; the fuzzy
\* fallback contributes only when no alias is a substring of the text.
C21_DictionaryOrder ==
    pc = "drug_names"
        => /\ EachOnce
           /\ \A i, j \in DOMAIN Found : i < j => EntryOf(Found[i]) < EntryOf(Found[j])

\* the text names CLINDAMICINA before CEFAZOLINA, the dictionary the reverse
C21_Witness ==
    /\ pc = "drug_names"
    /\ Val(result).text = Some("Clindamicina 600mg Cefazolina 2g")
    /\ Dict = DrugDictionary
    /\ Found = <<"CEFAZOLINA", "CLINDAMICINA">>

\* two misspelled names found by the fallback
FoundByFallback ==
    /\ pc = "drug_names"
    /\ Val(result).text = Some("Vancomicna Cefazolna")
    /\ InText = {}
    /\ Found = <<"CEFAZOLINA", "VANCOMICINA">>

\* a misspelled name beside a name in the dictionary is not found
FallbackNotTaken ==
    /\ pc = "drug_names"
    /\ Val(result).text = Some("Cefazolna Clindamicina 600mg")
    /\ Found = <<"CLINDAMICINA">>

----------------------------------------------------------------------------
(* What a call of audit_surgery or audit_all_surgeries leaves alone *)

\* the step is a call of audit_surgery
AuditSurgeryCalled == pc' = "audit_surgery"
\* the step is a call of audit_all_surgeries
AuditAllCalled == pc' = "audited"

\* the record of every result is the record it was made for, as it was loaded
RecordsAsLoaded(results, records) ==
    /\ Len(results) = Len(records)
    /\ \A i \in 1..Len(records) : results[i].surgery_record = records[i]

AuditingStateless ==
    /\ AuditSurgeryCalled \/ AuditAllCalled
           => UNCHANGED <<rules_repo, config, procedure_translation_map, surgery_records>>
    /\ AuditSurgeryCalled
           => /\ UNCHANGED audit_results
              /\ IsNone(Val(result').error)
                     => Val(result').result.surgery_record = Val(result').record
    /\ AuditAllCalled
           => /\ RecordsAsLoaded(audit_results', surgery_records)
              /\ pc = "audited" => audit_results' = audit_results

\* C22: a call of audit_surgery or of audit_all_surgeries leaves the rule
\* repository (rules and index), the configuration, the translation map and
\* the audited records as they were; audit_all_surgeries changes only
\* audit_results, which it rebuilds from empty, so that a second call on the
\* same records leaves the same list, one result per record, and not a longer
\* one.
C22_AuditingStateless == [][AuditingStateless]_vars

\* a full batch audited, against a repository that has rules
C22_Witness ==
    /\ pc = "audited"
    /\ Len(surgery_records) = MaxRecords
    /\ RecordsAsLoaded(audit_results, surgery_records)
    /\ rules_repo.rules # <<>>
    /\ \E i \in 1..Len(audit_results) : audit_results[i].matched_rule_id # ""

----------------------------------------------------------------------------
(* _match_with_protocol on procedures that have a translation *)

TranslationRuleSets ==
    { <<RuleUmbilical, RuleHernia>>,
      <<RuleCesarianaNumber, RuleCesariana, RuleBiopsia>>,
      <<RuleCesariana, RuleUmbilical>> }

\* a translation threshold of 0.6
StrictTranslationConfig == [translation_match_similarity_threshold |-> Rat(6, 10)]
TranslationConfigArgs ==
    {None, Some(ThreeQuartersConfig), Some(ZeroThresholdConfig), Some(StrictTranslationConfig)}

\* procedimentos.json: translations of several alternatives
SeveralAlternatives ==
    << <<"Hernia inguinal", "Hernioplastia / Hernia umbilical">>,
       <<"Parto cesareo", "Biopsia / Cesariana">>,
       <<"Hernioplastia", "Herniorrafia / Hernia incisional">>,
       <<"Cirurgia de", "Cesariana">> >>
\* translations of one alternative, and one of none
OneAlternative ==
    << <<"Parto cesareo", "Biopsia">>,
       <<"Hernia inguinal", "Hernia umbilical/Hernioplastia">>,
       <<"Hernioplastia", "Cesariana">>,
       <<"Cesarea", " / ">> >>
TranslationMaps == {<<>>, SeveralAlternatives, OneAlternative}

TranslatedProcedures ==
    {"", "Cesariana", "Cesarea", "Hernia inguinal", "Hernioplastia", "Parto cesareo",
     "Cirurgia de"}

InitTranslation ==
    /\ \E rules \in TranslationRuleSets, config_arg \in TranslationConfigArgs,
          translation_arg \in TranslationMaps :
           __init__(rules, config_arg, translation_arg)
    /\ \E procedure \in TranslatedProcedures :
           result = Some([procedure |-> procedure, match |-> Match(None, Zero, "")])
    /\ pc = "match"

SpecTranslation == InitTranslation /\ [][NextMatch]_vars

Matched == Val(result).match
Source == Val(result).procedure
Translated == _translate_procedure_name(procedure_translation_map, Source)
Candidates == TranslationCandidates(Translated)
TranslatedTags == {"translated_exact_match", "translated_alias_match", "translated_fuzzy_match"}

\* the plausibility check: one cleaned name within the other, or a similarity at
\* or above the translation threshold
Plausible(source_clean, candidate_clean) ==
    \/ IsSubstring(source_clean, candidate_clean)
    \/ IsSubstring(candidate_clean, source_clean)
    \/ RatLe(Get(config, "translation_match_similarity_threshold", Rat(45, 100)),
             fuzzy_match_score(source_clean, candidate_clean))

\* the match is one the candidate gives: its rule has the candidate as name, as
\* alias, or scores what the match says against it
GivenBy(found, rule, candidate) ==
    /\ found.method = "translated_exact_match"
           => rule.procedure_normalized = normalize_text(candidate) /\ found.score = One
    /\ found.method = "translated_alias_match"
           => /\ \E k \in DOMAIN rule.surgery_name :
                      normalize_text(rule.surgery_name[k]) = normalize_text(candidate)
              /\ found.score = One
    /\ found.method = "translated_fuzzy_match"
           => /\ RatLe(Threshold, found.score)
              /\ \E t \in DOMAIN Targets(rule) :
                     RatEq(found.score, fuzzy_match_score(candidate, Targets(rule)[t]))

DirectLawOf(found, text) ==
    DirectLaw(found, rules_repo.rules, text,
              Succeeding(Scored(rules_repo.rules, text), Threshold))

\* C23: a translated_* match comes only through a candidate of the translation
\* that passes the plausibility check against the original name (one cleaned
\* name within the other, or similarity at or above the translation threshold,
\* 0.45 by default); and when the translation gives no rule the result is the
\* one of direct matching on the original name.
C23_PlausibleCandidatesOnly ==
    (pc = "match_done" /\ Source # "")
        => /\ Matched.method # "translated_no_match"
           /\ Matched.method \in TranslatedTags
                  => /\ Translated # ""
                     /\ ~IsNone(Matched.rule)
                     /\ \E k \in DOMAIN Candidates :
                            /\ Plausible(clean_procedure_name(Source),
                                         clean_procedure_name(Candidates[k]))
                            /\ GivenBy(Matched, Val(Matched.rule), Candidates[k])
           /\ Matched.method \notin TranslatedTags
                  => DirectLawOf(Matched, clean_procedure_name(Source))

\* "Parto cesareo" is translated to "Biopsia", a rule of the repository, and
\* the similarity is 0.30: the result is the one of direct matching
C23_Witness ==
    /\ pc = "match_done"
    /\ Source = "Parto cesareo"
    /\ Translated = "Biopsia"
    /\ RuleBiopsia \in SeqToSet(rules_repo.rules)
    /\ Matched.method \in {"no_match", "fuzzy_match"}

\* the first alternative is skipped, the second gives the match
SecondCandidateMatched ==
    /\ pc = "match_done"
    /\ Source = "Parto cesareo"
    /\ Translated = "Biopsia / Cesariana"
    /\ RuleBiopsia \in SeqToSet(rules_repo.rules)
    /\ Matched = Match(Some(RuleCesarianaNumber), One, "translated_exact_match")

\* the candidates the matcher does not skip
Surviving == PlausibleCandidates(config, Source, Candidates)

\* hits <<c, i, k, score>> of the fuzzy comparison of candidate c with the name
\* (k = 0) or the k-th alias of rule i, at or above the threshold
HitsOf(candidates) ==
    UNION { {<<c, p[1], p[2], p[3]>> :
                 p \in Succeeding(Scored(rules_repo.rules, candidates[c]), Threshold)} :
            c \in DOMAIN candidates }
HighestHits(hits) == {p \in hits : \A q \in hits : RatLe(q[4], p[4])}
FirstHit(hits) ==
    CHOOSE p \in hits :
        \A q \in hits : \/ p[1] < q[1]
                        \/ p[1] = q[1] /\ p[2] < q[2]
                        \/ p[1] = q[1] /\ p[2] = q[2] /\ p[3] <= q[3]

\* what one strategy owes for a candidate, FALSE when it finds no rule
ExactFor(found, candidate) ==
    /\ ExactAt(rules_repo.rules, normalize_text(candidate)) # {}
    /\ found = Match(Some(rules_repo.rules[Least(ExactAt(rules_repo.rules,
                                                         normalize_text(candidate)))]),
                     One, "translated_exact_match")
AliasFor(found, candidate) ==
    /\ AliasAt(rules_repo.rules, normalize_text(candidate)) # {}
    /\ found = Match(Some(rules_repo.rules[Least(AliasAt(rules_repo.rules,
                                                         normalize_text(candidate)))]),
                     One, "translated_alias_match")
FuzzyFor(found, hits) ==
    /\ hits # {}
    /\ found.method = "translated_fuzzy_match"
    /\ found.rule = Some(rules_repo.rules[FirstHit(HighestHits(hits))[2]])
    /\ RatEq(found.score, FirstHit(HighestHits(hits))[4])

Finds(candidate) ==
    \/ ExactAt(rules_repo.rules, normalize_text(candidate)) # {}
    \/ AliasAt(rules_repo.rules, normalize_text(candidate)) # {}
    \/ HitsOf(<<candidate>>) # {}

\* candidate by candidate: exact, else alias, else fuzzy, for the first
\* candidate that finds a rule
CandidateMajor(found, candidates) ==
    LET finding == {c \in DOMAIN candidates : Finds(candidates[c])}
    IN  IF finding = {} THEN found.method \notin TranslatedTags
        ELSE \/ ExactFor(found, candidates[Least(finding)])
             \/ /\ ExactAt(rules_repo.rules, normalize_text(candidates[Least(finding)])) = {}
                /\ AliasFor(found, candidates[Least(finding)])
             \/ /\ ExactAt(rules_repo.rules, normalize_text(candidates[Least(finding)])) = {}
                /\ AliasAt(rules_repo.rules, normalize_text(candidates[Least(finding)])) = {}
                /\ FuzzyFor(found, HitsOf(<<candidates[Least(finding)]>>))

\* strategy by strategy: the first candidate with an exact match, else the first
\* with an alias match, else the highest fuzzy score of all candidates
StrategyMajor(found, candidates) ==
    LET exact == {c \in DOMAIN candidates :
                      ExactAt(rules_repo.rules, normalize_text(candidates[c])) # {}}
        alias == {c \in DOMAIN candidates :
                      AliasAt(rules_repo.rules, normalize_text(candidates[c])) # {}}
    IN  IF exact # {} THEN ExactFor(found, candidates[Least(exact)])
        ELSE IF alias # {} THEN AliasFor(found, candidates[Least(alias)])
        ELSE IF HitsOf(candidates) # {} THEN FuzzyFor(found, HitsOf(candidates))
        ELSE found.method \notin TranslatedTags

\* C24: the surviving candidates of a translation are processed in order, each
\* one through exact match on canonical names, then exact match on aliases,
\* then fuzzy match, before the next candidate; the first rule found at or
\* above the threshold is returned with the tag of its strategy.
C24_CandidateByCandidate ==
    (pc = "match_done" /\ Source # "" /\ Translated # "")
        => CandidateMajor(Matched, Surviving)

\* C24, amended: each strategy goes through all the surviving candidates in
\* order before the next strategy: exact match on canonical names for every
\* candidate, then exact match on aliases for every candidate, then the fuzzy
\* comparison of every candidate, of which the highest score at or above the
\* threshold is kept (the first met among equals).
C24_StrategyByStrategy ==
    (pc = "match_done" /\ Source # "" /\ Translated # "")
        => StrategyMajor(Matched, Surviving)

\* the first candidate is an alias of rule_2, the second the name of rule_10:
\* the exact match of the second is returned
C24_Witness ==
    /\ pc = "match_done"
    /\ Source = "Hernia inguinal"
    /\ Surviving = <<"Hernioplastia", "Hernia umbilical">>
    /\ rules_repo.rules = <<RuleUmbilical, RuleHernia>>
    /\ Matched = Match(Some(RuleUmbilical), One, "translated_exact_match")

\* the first candidate scores at or above the threshold, the second higher: the
\* score of the second is returned
BestOfAllCandidates ==
    /\ pc = "match_done"
    /\ Len(Surviving) = 2
    /\ Matched.method = "translated_fuzzy_match"
    /\ HitsOf(<<Surviving[1]>>) # {}
    /\ \A p \in HitsOf(<<Surviving[1]>>) : RatLt(p[4], Matched.score)

----------------------------------------------------------------------------
(* The drug the dose is compared with *)

\* CEFAZOLINA is named twice, with two doses
RuleTwoDrugs ==
    ProtocolRule("rule_12", "Colecistectomia", "colecistectomia", TRUE,
                 <<Drug("CEFAZOLINA", Flat(<<Amount(2, "G")>>))>>,
                 <<Drug("CLINDAMICINA", Flat(<<Amount(900, "MG")>>)),
                   Drug("CEFAZOLINA", Flat(<<Amount(1, "G")>>))>>, <<>>)
\* the first drug has no name, the next ones no dose that can be read
RuleNoDose ==
    ProtocolRule("rule_13", "Apendicectomia", "apendicectomia", TRUE,
                 <<Drug("", Flat(<<Amount(500, "MG")>>)), Drug("GENTAMICINA", NoDose)>>,
                 <<Drug("CLINDAMICINA", Flat(<<>>)),
                   Drug("CEFTRIAXONE", Flat(<<Amount(1, "G")>>))>>, <<>>)

ReferenceRules ==
    {None} \cup {Some(rule) : rule \in {RuleTwoDrugs, RuleNoDose, RuleLimpa, RuleBiopsia,
                                         RuleCesarianaNumber, RulePerKg}}
ReferenceDetected ==
    {<<>>, <<"CEFAZOLINA">>, <<"CLINDAMICINA">>, <<"CEFTRIAXONE">>,
     <<"CLINDAMICINA", "CEFAZOLINA">>, <<"CEFAZOLINA", "CLINDAMICINA">>,
     <<"VANCOMICINA", "CLINDAMICINA">>, <<"GENTAMICINA", "CEFTRIAXONE">>}
ReferenceDoses == {Some(900), Some(1000), Some(2000)}

InitReference ==
    /\ __init__(<<>>, None, <<>>)
    /\ \E rule \in ReferenceRules, d \in ReferenceDetected, a \in ReferenceDoses :
           result = Some([rule |-> rule,
                          record |-> [SurgeryRecord EXCEPT
                                          !.atb_given = "SIM",
                                          !.atb_detected = d,
                                          !.dose_administered_mg = a,
                                          !.patient_weight = Some(70)],
                          call |-> None])
    /\ pc = "reference"

\* a call of _validate_dose(record, rule, result), rule a rule or None
ValidateDoseOfRule ==
    /\ pc = "reference"
    /\ result' = Some([Val(result) EXCEPT
                           !.call = Some(_validate_dose(Val(result).record, Val(result).rule,
                                                        AuditResult(Val(result).record),
                                                        config))])
    /\ pc' = "reference_done"
    /\ UNCHANGED <<rules_repo, config, procedure_translation_map, surgery_records,
                   audit_results>>

NextReference == ValidateDoseOfRule

SpecReference == InitReference /\ [][NextReference]_vars

\* the named drugs of the recommendations of the rule, primary then allergy
NamedDrugs(rule) ==
    LET named(drug) == drug.name # ""
    IN  SelectSeq(rule.primary_recommendation \o rule.allergy_recommendation, named)

\* the detected drugs that a recommended drug names
DetectedAndNamed(det, drugs) ==
    {i \in DOMAIN det : \E j \in DOMAIN drugs : drugs[j].name = det[i]}

FirstNamed(drugs, name) ==
    drugs[CHOOSE j \in DOMAIN drugs :
              drugs[j].name = name /\ \A k \in 1..(j - 1) : drugs[k].name # name]

\* the reference drug: the recommended drug of the first detected name that is
\* recommended, else the first recommended drug
Reference(det, drugs) ==
    IF DetectedAndNamed(det, drugs) # {}
    THEN FirstNamed(drugs, det[Least(DetectedAndNamed(det, drugs))])
    ELSE drugs[1]

\* the dose of the drug in mg, for the weight of the record
Parseable(dose) == dose.kind = "perkg" \/ (dose.kind = "flat" /\ dose.parts # <<>>)
ReferenceDose(drug, record) ==
    IF drug.dose.kind = "perkg" THEN CappedDose(drug, Val(record.patient_weight))
    ELSE Val(extract_dose_from_text(drug.dose))

DoseCall == Val(Val(result).call)
ReferenceLaw(rule, record, call) ==
    IF IsNone(rule) \/ NamedDrugs(Val(rule)) = <<>>
    THEN <<call.status, call.razao>> = <<"INDETERMINADO", "dose_sem_referencia">>
    ELSE IF ~Parseable(Reference(record.atb_detected, NamedDrugs(Val(rule))).dose)
    THEN <<call.status, call.razao>> = <<"INDETERMINADO", "dose_sem_referencia">>
    ELSE call.result.dose_diferenca_mg
             = Some(Val(record.dose_administered_mg)
                        - ReferenceDose(Reference(record.atb_detected,
                                                  NamedDrugs(Val(rule))),
                                        record))

DetectedWithoutDose ==
    /\ pc = "reference_done"
    /\ Val(result).rule = Some(RuleNoDose)
    /\ Val(result).record.atb_detected = <<"GENTAMICINA", "CEFTRIAXONE">>
    /\ DoseCall.razao = "dose_sem_referencia"

\* no detected drug is recommended: the first recommended drug is the reference
FirstRecommended ==
    /\ pc = "reference_done"
    /\ Val(result).rule = Some(RuleTwoDrugs)
    /\ Val(result).record.atb_detected = <<"CEFTRIAXONE">>
    /\ Val(result).record.dose_administered_mg = Some(2000)
    /\ DoseCall.result.dose_diferenca_mg = Some(0)

----------------------------------------------------------------------------
(* _match_with_protocol on names that hold stop-words *)

\* a rule as protocol_extractor writes it: procedure_normalized is
\* normalize_text(procedure), stop-words included
RuleCirurgiaHernia ==
    ProtocolRule("rule_14", "Cirurgia de Hernia", "cirurgia de hernia", TRUE,
                 <<Drug("CEFAZOLINA", Flat(<<Amount(2, "G")>>))>>, <<>>, <<>>)

StopWordRuleSets ==
    { <<RuleUmbilical, RuleCirurgiaHernia>>,
      <<RuleCirurgiaHernia, RuleUmbilical>>,
      <<RuleCesariana, RuleCirurgiaHernia>>,
      <<RuleCesariana, RuleHernia>> }

StopWordProcedures ==
    {"Cirurgia de Hernia", "CIRURGIA DE  HERNIA", "Hernia umbilical", "Cesariana",
     "Procedimento de Cesariana", "Parto cesareo"}

InitStopWords ==
    /\ \E rules \in StopWordRuleSets, config_arg \in MatchConfigArgs,
          translation_arg \in TranslationArgs :
           __init__(rules, config_arg, translation_arg)
    /\ \E procedure \in StopWordProcedures :
           result = Some([procedure |-> procedure, match |-> Match(None, Zero, "")])
    /\ pc = "match"

SpecStopWords == InitStopWords /\ [][NextMatch]_vars

\* the rules whose canonical normalized name is the normalized procedure text
NamedExactly == ExactAt(rules_repo.rules, normalize_text(Source))

\* C26: when no translation applies and the procedure text normalizes to
\* exactly the canonical normalized name of a rule, the matcher returns the
\* first rule of the repository with that normalized name, with score 1.0,
\* also when the name holds stop-words.
C26_ExactNameMatches ==
    (pc = "match_done" /\ Source # "" /\ Translated = "" /\ NamedExactly # {})
        => /\ Matched.rule = Some(rules_repo.rules[Least(NamedExactly)])
           /\ Matched.score = One

\* the same for names without stop-words
ExactNameWithoutStopWords ==
    (pc = "match_done" /\ Source # "" /\ Translated = "" /\ NamedExactly # {}
     /\ clean_procedure_name(Source) = normalize_text(Source))
        => /\ Matched.rule = Some(rules_repo.rules[Least(NamedExactly)])
           /\ Matched.score = One
           /\ Matched.method = "exact_match"

\* "Cirurgia de Hernia" is the name of rule_14 and the matcher returns rule_10,
\* "Hernia umbilical", as a fuzzy match of score 1.0
AnotherRuleReturned ==
    /\ pc = "match_done"
    /\ Source = "Cirurgia de Hernia"
    /\ config = AUDIT_CONFIG
    /\ rules_repo.rules = <<RuleUmbilical, RuleCirurgiaHernia>>
    /\ Matched = Match(Some(RuleUmbilical), One, "fuzzy_match")

\* the rule of the name is returned, by the fuzzy search
ReturnedAsFuzzy ==
    /\ pc = "match_done"
    /\ Source = "Cirurgia de Hernia"
    /\ rules_repo.rules = <<RuleCesariana, RuleCirurgiaHernia>>
    /\ Matched = Match(Some(RuleCirurgiaHernia), One, "fuzzy_match")

----------------------------------------------------------------------------
(* The final status of a returned result *)

FinalStatuses == {"CONFORME", "ALERTA", "NAO_CONFORME"}

\* the result is one audit_all_surgeries made for an exception
MadeForException(res) ==
    /\ Len(res.conf_final_razao) >= 19
    /\ SubSeq(res.conf_final_razao, 1, 19) = "Erro na auditoria: "

\* C27: audit_surgery, when it returns, never returns a final status of
\* INDETERMINADO: the final status is CONFORME, ALERTA or NAO_CONFORME; in the
\* list of audit_all_surgeries a final INDETERMINADO is that of a result made
\* for a raised exception, and of no other.
C27_FinalNeverIndeterminate ==
    /\ (pc = "audit_surgery" /\ IsNone(Call.error)) => Res.conf_final \in FinalStatuses
    /\ pc = "audited"
           => \A i \in DOMAIN audit_results :
                  IF IsNone(audit_surgery(rules_repo, config, procedure_translation_map,
                                          surgery_records[i]).error)
                  THEN audit_results[i].conf_final \in FinalStatuses
                  ELSE /\ audit_results[i].conf_final = "INDETERMINADO"
                       /\ MadeForException(audit_results[i])

\* dose and timing are INDETERMINADO and the result is CONFORME
C27_Witness ==
    /\ pc = "audit_surgery"
    /\ IsNone(Call.error)
    /\ Res.conf_escolha = "CONFORME"
    /\ Res.conf_dose = "INDETERMINADO"
    /\ Res.conf_timing = "INDETERMINADO"
    /\ Res.conf_final = "CONFORME"

\* a batch in which one audit raised and one returned
OneRaisedOneReturned ==
    /\ pc = "audited"
    /\ Len(audit_results) = 2
    /\ audit_results[1].conf_final = "INDETERMINADO"
    /\ audit_results[2].conf_final \in FinalStatuses

----------------------------------------------------------------------------
(* Doses below the expected dose *)

\* the call has an expected dose in mg
HasExpectedDose ==
    \/ DoseReference.dose.kind = "flat"
    \/ /\ DoseReference.dose.kind = "perkg"
       /\ TruthyNum(DoseRecord.patient_weight)
       /\ Val(DoseRecord.patient_weight) > 0

\* a positive administered dose below a positive expected dose
Underdose ==
    /\ HasExpectedDose
    /\ TruthyNum(DoseRecord.dose_administered_mg)
    /\ 0 < Val(DoseRecord.dose_administered_mg)
    /\ 0 < ExpectedDose
    /\ Val(DoseRecord.dose_administered_mg) < ExpectedDose

\* C28: with the default tolerances (hard tolerance 100%) a positive
\* administered dose below a positive expected dose is never NAO_CONFORME: an
\* underdose of more than 15% is ALERTA(dose_fora_referencia), and the reason
\* is never dose_muito_baixa.
C28_UnderdoseIsAlert ==
    (pc = "dose_done" /\ config = AUDIT_CONFIG /\ Underdose)
        => /\ Val(result).status # "NAO_CONFORME"
           /\ Val(result).razao # "dose_muito_baixa"
           /\ 100 * (ExpectedDose - Val(DoseRecord.dose_administered_mg)) > 15 * ExpectedDose
                  => Handed = <<"ALERTA", "dose_fora_referencia">>

\* 1 mg given for 100 mg expected, 99% below
C28_Witness ==
    /\ pc = "dose_done"
    /\ config = AUDIT_CONFIG
    /\ Underdose
    /\ ExpectedDose = 100
    /\ DoseRecord.dose_administered_mg = Some(1)
    /\ Handed = <<"ALERTA", "dose_fora_referencia">>

\* a negative administered dose, more than 100% below
NegativeDoseTooLow ==
    /\ pc = "dose_done"
    /\ config = AUDIT_CONFIG
    /\ HasExpectedDose
    /\ Val(DoseRecord.dose_administered_mg) < 0
    /\ Handed = <<"NAO_CONFORME", "dose_muito_baixa">>

\* with a hard tolerance of 50% an underdose is a non-conformity
UnderdoseUnderCustomTolerance ==
    /\ pc = "dose_done"
    /\ config = CustomConfig
    /\ Underdose
    /\ Handed = <<"NAO_CONFORME", "dose_muito_baixa">>

----------------------------------------------------------------------------
(* audit_surgery on records that raise alerts *)

AlertRuleSets == { <<RuleBiopsia, RuleFlat100>>, <<RuleFlat100, RuleLimpa>> }

\* records whose dose is within, near and beyond the tolerances of 100 mg, given
\* in and out of the window, with and without a redose
AlertRecords ==
    { [SurgeryRecord EXCEPT !.procedure = p,
                            !.atb_given = g,
                            !.atb_detected = d,
                            !.dose_administered_mg = a,
                            !.incision_time = it,
                            !.atb_time = at,
                            !.repique_done = rd[1],
                            !.repique_time = rd[2]] :
      p \in {"Biopsia", "Postectomia", "Procedimento desconhecido"},
      g \in {"SIM", "NAO"},
      d \in {<<>>, <<"CEFAZOLINA">>, <<"GENTAMICINA">>},
      a \in {None, Some(100), Some(112), Some(150), Some(210)},
      it \in {None, Some("07:30")},
      at \in {Some("05:00"), Some("07:00"), Some("08:00")},
      rd \in {<<"NAO", None>>, <<"SIM", None>>, <<"SIM", Some("09:00")>>,
              <<"SIM", Some("11:10")>>} }

InitAlert ==
    /\ \E rules \in AlertRuleSets, config_arg \in {None, Some(CustomConfig)} :
           __init__(rules, config_arg, <<>>)
    /\ result = None
    /\ pc = "constructed"

\* a call of audit_surgery on one of the records
AuditOne == \E record \in AlertRecords : AuditSurgery(record)

NextAlert == AuditOne

SpecAlert == InitAlert /\ [][NextAlert]_vars

\* the reason of a final ALERTA is the one of the dose, the one of the choice
\* or sem_match_protocolo
AlertReasonLaw(res) ==
    \/ res.conf_final_razao = "sem_match_protocolo"
    \/ res.conf_dose = "ALERTA" /\ res.conf_final_razao = res.conf_dose_razao
    \/ /\ res.conf_escolha \in {"ALERTA", "INDETERMINADO"}
       /\ res.conf_final_razao = res.conf_escolha_razao

\* C29: the timing and redosing criteria are never ALERTA, so that in every
\* result of audit_surgery a final ALERTA carries the reason of the dose, the
\* reason of the choice or sem_match_protocolo, and never alerta_validacao.
C29_AlertReasons ==
    (pc = "audit_surgery" /\ IsNone(Call.error))
        => /\ Res.conf_timing # "ALERTA"
           /\ Res.conf_repique # "ALERTA"
           /\ Res.conf_final_razao # "alerta_validacao"
           /\ Res.conf_final = "ALERTA" => AlertReasonLaw(Res)

\* a dose 12% above the reference, given in the window, redose in the interval:
\* the alert is the one of the dose
C29_Witness ==
    /\ pc = "audit_surgery"
    /\ IsNone(Call.error)
    /\ Res.conf_escolha = "CONFORME"
    /\ Res.conf_dose = "ALERTA"
    /\ Res.conf_timing = "CONFORME"
    /\ Res.conf_repique = "CONFORME"
    /\ Res.conf_repique_razao = "repique_no_intervalo"
    /\ Res.conf_final = "ALERTA"
    /\ Res.conf_final_razao = "dose_pequena_diferenca"

\* an antibiotic given where the rule recommends none: the alert of the choice
AlertOfChoice ==
    /\ pc = "audit_surgery"
    /\ Res.conf_escolha = "ALERTA"
    /\ Res.conf_final = "ALERTA"
    /\ Res.conf_final_razao = "profilaxia_potencial_sem_indicacao"

\* timing and redosing both out of their bounds: a non-conformity
TimingAndRedosingOut ==
    /\ pc = "audit_surgery"
    /\ Res.conf_timing_razao = "timing_fora_janela"
    /\ Res.conf_repique_razao = "repique_fora_intervalo"
    /\ Res.conf_final = "NAO_CONFORME"

----------------------------------------------------------------------------
(* ProtocolRulesRepository: one instance for the process *)

MaxAuditors == 2     \* auditors built in one process

\* the class: _instance, None or a reference into the heap of its objects
NoInstance == [_instance |-> None, heap |-> <<>>]

\* Mutant: every construction allocates an object.
__new___PerCall(cls) ==
    [_instance |-> Some(Len(cls.heap) + 1),
     heap |-> Append(cls.heap, [_initialized |-> FALSE])]

\* ProtocolRulesRepository.__new__
__new__(cls) ==
    IF IsNone(cls._instance)
    THEN [_instance |-> Some(Len(cls.heap) + 1),
          heap |-> Append(cls.heap, [_initialized |-> FALSE])]
    ELSE cls

\* ProtocolRulesRepository.__init__, on the object __new__ returned
InitRepository(self) ==
    IF self._initialized THEN self
    ELSE [rules |-> <<>>, _index |-> <<>>, _metadata |-> <<>>, _is_loaded |-> FALSE,
          _initialized |-> TRUE]

\* ProtocolRulesRepository(): the class after __new__ and __init__
Constructed(cls) == [cls EXCEPT !.heap[Val(cls._instance)] = InitRepository(@)]

\* _load_metadata: rules.meta.json beside the file, when it exists
_load_metadata(self, file) ==
    IF IsNone(file.metadata) THEN self ELSE [self EXCEPT !._metadata = Val(file.metadata)]

\* ProtocolRulesRepository.load_from_json, for a file that can be read
load_from_json(self, file) ==
    IF self._is_loaded THEN self
    ELSE [_load_metadata([self EXCEPT !.rules = Val(file.rules),
                                      !._index = _build_index(Val(file.rules))], file)
              EXCEPT !._is_loaded = TRUE]

\* rules.json files: rules, and the content of rules.meta.json when it exists;
\* no rules for a path that cannot be opened
RuleFiles ==
    { [filepath |-> "data/rules.json", rules |-> Some(<<RuleCesariana, RuleHernia>>),
       metadata |-> Some([extraction_method |-> "camelot_multi_strategy"])],
      [filepath |-> "other/rules.json", rules |-> Some(<<RuleBiopsia>>), metadata |-> None],
      [filepath |-> "missing/rules.json", rules |-> None, metadata |-> None] }

\* what the scripts hold: the reference the last construction returned (0 before
\* any), the references the auditors were built with, the file of the last load
Holding(returned, auditors, filepath, error) ==
    [returned |-> returned, auditors |-> auditors, filepath |-> filepath, error |-> error]

InitRepositoryClass ==
    /\ rules_repo = NoInstance
    /\ config = AUDIT_CONFIG
    /\ procedure_translation_map = <<>>
    /\ surgery_records = <<>>
    /\ audit_results = <<>>
    /\ result = Some(Holding(0, <<>>, "", None))
    /\ pc = "class"

\* the object a reference points to
Deref(ref) == rules_repo.heap[ref]

\* rules_repo = ProtocolRulesRepository()
Construct ==
    /\ rules_repo' = Constructed(__new__(rules_repo))
    /\ result' = Some([Val(result) EXCEPT !.returned = Val(rules_repo'._instance),
                                          !.error = None])
    /\ pc' = "constructed"
    /\ UNCHANGED <<config, procedure_translation_map, surgery_records, audit_results>>

\* rules_repo.load_from_json(filepath), on the reference held
LoadFromJson(file) ==
    /\ Val(result).returned # 0
    /\ LET self == Deref(Val(result).returned)
       IN  IF ~self._is_loaded /\ IsNone(file.rules)
           THEN /\ UNCHANGED rules_repo
                /\ result' = Some([Val(result) EXCEPT
                                       !.filepath = file.filepath,
                                       !.error = Some("FileNotFoundError")])
           ELSE /\ rules_repo' = [rules_repo EXCEPT !.heap[Val(result).returned] =
                                                        load_from_json(self, file)]
                /\ result' = Some([Val(result) EXCEPT !.filepath = file.filepath,
                                                      !.error = None])
    /\ pc' = "load_from_json"
    /\ UNCHANGED <<config, procedure_translation_map, surgery_records, audit_results>>

\* the reset by hand of _load_rules_repository (_is_loaded = False) and of the
\* tests' setUp (_is_loaded = True)
ResetByHand(is_loaded) ==
    /\ Val(result).returned # 0
    /\ rules_repo' = [rules_repo EXCEPT !.heap[Val(result).returned] =
                          [@ EXCEPT !.rules = <<>>, !._index = <<>>, !._metadata = <<>>,
                                    !._is_loaded = is_loaded]]
    /\ result' = Some([Val(result) EXCEPT !.error = None])
    /\ pc' = "reset"
    /\ UNCHANGED <<config, procedure_translation_map, surgery_records, audit_results>>

\* SurgeryAuditor(rules_repo, ...): the auditor keeps the reference
BuildAuditor ==
    /\ Val(result).returned # 0
    /\ Len(Val(result).auditors) < MaxAuditors
    /\ result' = Some([Val(result) EXCEPT !.auditors = Append(@, Val(result).returned),
                                          !.error = None])
    /\ pc' = "auditor"
    /\ UNCHANGED <<rules_repo, config, procedure_translation_map, surgery_records,
                   audit_results>>

NextRepository ==
    \/ Construct
    \/ \E file \in RuleFiles : LoadFromJson(file)
    \/ \E is_loaded \in BOOLEAN : ResetByHand(is_loaded)
    \/ BuildAuditor

SpecRepository == InitRepositoryClass /\ [][NextRepository]_vars

Held == Val(result)
\* the instance of the class, once there is one
TheRepository == Deref(Val(rules_repo._instance))

\* a construction returns the instance there is, and leaves it as it is
SameInstance ==
    (pc' = "constructed" /\ ~IsNone(rules_repo._instance))
        => /\ Val(result').returned = Val(rules_repo._instance)
           /\ rules_repo' = rules_repo

\* load_from_json on a repository marked loaded leaves rules, index and metadata
FileIgnored ==
    (pc' = "load_from_json" /\ Deref(Held.returned)._is_loaded)
        => /\ rules_repo' = rules_repo
           /\ IsNone(Val(result').error)

\* the class has one object, and every auditor holds it
OneRuleSet ==
    /\ Len(rules_repo'.heap) <= 1
    /\ \A i \in DOMAIN Val(result').auditors :
           Val(result').auditors[i] = Val(rules_repo'._instance)

\* C30: ProtocolRulesRepository is a singleton of the process: every
\* construction returns the same instance without clearing it; once it is
\* marked loaded, load_from_json on any file leaves its rules, index and
\* metadata as they are, until the state is reset by hand; the auditors built
\* at different times hold the same repository, so one rule set.
C30_Singleton == [][SameInstance /\ FileIgnored /\ OneRuleSet]_vars

\* two auditors built, the repository loaded from data/rules.json, and a later
\* load of other/rules.json that left it so
C30_Witness ==
    /\ pc = "load_from_json"
    /\ Len(Held.auditors) = MaxAuditors
    /\ Held.filepath = "other/rules.json"
    /\ TheRepository._is_loaded
    /\ TheRepository.rules = <<RuleCesariana, RuleHernia>>
    /\ "cesariana" \in DOMAIN TheRepository._index

\* after a reset by hand the other file is loaded
LoadedAfterReset ==
    /\ pc = "load_from_json"
    /\ Len(Held.auditors) = MaxAuditors
    /\ Held.filepath = "other/rules.json"
    /\ TheRepository.rules = <<RuleBiopsia>>
    /\ TheRepository._metadata = <<>>

====
